---- MODULE Spec2Model ----
(***************************************************************************)
(* The zeno transpiler front end: Lexer (lexer.rs), Parser (parser.rs) and *)
(* the Rust emitter (generator.rs).                                        *)
(*                                                                         *)
(* Text is a sequence of one-character strings.  Byte 0, which the lexer   *)
(* uses for "end of input", is the value NUL.  Options are sequences of    *)
(* length 0 (None) or 1 (Some).  An i64 is kept as its canonical decimal   *)
(* digits, a width TLC's own integers do not have.                         *)
(***************************************************************************)
EXTENDS Integers, Sequences, FiniteSets, TLC

VARIABLES drawn, lexer, tokens, phase, cursor, statements, errors, result, output, gen_index,
          driver

vars == <<drawn, lexer, tokens, phase, cursor, statements, errors, result, output, gen_index,
          driver>>

\* ------------------------------------------------------------------ bounds

\* Calls of next_token that may return Eof before the token stream is closed.
MaxEofCalls == 2

\* Binary operators in an expression drawn as a token stream.
MaxOps == 2

\* Statements in a program drawn as a token stream.
MaxStmts == 2

\* Statements in the body of a For drawn as an AST.
MaxBody == 2

\* Characters in a source text drawn for the lexer.
MaxChars == 3

\* Characters in a source text drawn for the lexer under fairness.
MaxFairChars == 2

\* Pieces in a token stream drawn for the parser.
MaxPieces == 3

\* Pieces in a source text drawn for the lexer and the parser.
MaxSourcePieces == 3

\* Characters in a source text drawn with comments.
MaxCommentChars == 4

\* Pieces in a source text drawn with comments.
MaxCommentPieces == 4

\* Characters in a source text drawn with numbers.
MaxNumberChars == 5

\* ---------------------------------------------------------------- characters

NUL == "NUL"

Digit == {"0", "1", "2", "3", "4", "5", "6", "7", "8", "9"}

Alphabetic ==
    {"a", "b", "c", "d", "e", "f", "g", "h", "i", "j", "k", "l", "m",
     "n", "o", "p", "q", "r", "s", "t", "u", "v", "w", "x", "y", "z",
     "A", "B", "C", "D", "E", "F", "G", "H", "I", "J", "K", "L", "M",
     "N", "O", "P", "Q", "R", "S", "T", "U", "V", "W", "X", "Y", "Z"}

Whitespace == {" ", "\t", "\n", "\f", "\r"}

None == <<>>

Some(v) == <<v>>

\* -------------------------------------------------------------------- tokens

Tok(t) == [type |-> t]

IdentifierTok(name) == [type |-> "Identifier", name |-> name]

IntegerTok(val) == [type |-> "Integer", val |-> val]

FloatTok(lexeme) == [type |-> "Float", lexeme |-> lexeme]

StringTok(s) == [type |-> "String", s |-> s]

IllegalTok(c) == [type |-> "Illegal", c |-> c]

EofTok == Tok("Eof")

\* --------------------------------------------------------------------- Lexer

read_char(l) ==
    [l EXCEPT !.ch = IF l.read_position >= Len(l.input)
                     THEN NUL
                     ELSE l.input[l.read_position + 1],
              !.position = l.read_position,
              !.read_position = l.read_position + 1]

LexerNew(input) ==
    read_char([input |-> input, position |-> 0, read_position |-> 0, ch |-> NUL])

peek_char(l) ==
    IF l.read_position >= Len(l.input) THEN NUL ELSE l.input[l.read_position + 1]

RECURSIVE skip_whitespace(_)
skip_whitespace(l) ==
    IF l.ch \in Whitespace THEN skip_whitespace(read_char(l)) ELSE l

\* SkipLine running past the newline, to the end of the text.
RECURSIVE SkipLine_past_newline(_)
SkipLine_past_newline(l) ==
    IF l.ch # NUL THEN SkipLine_past_newline(read_char(l)) ELSE l

RECURSIVE SkipLine(_)
SkipLine(l) ==
    IF l.ch # "\n" /\ l.ch # NUL THEN SkipLine(read_char(l)) ELSE l

\* SkipBlock ending the comment after its first byte.
SkipBlock_first_byte_only(l) == IF l.ch = NUL THEN l ELSE read_char(l)

RECURSIVE SkipBlock(_)
SkipBlock(l) ==
    IF l.ch = NUL THEN l
    ELSE IF l.ch = "*" /\ peek_char(l) = "/" THEN read_char(read_char(l))
    ELSE SkipBlock(read_char(l))

\* skip_comment: <<the lexer after it, whether a comment was skipped>>
skip_comment(l) ==
    IF l.ch = "/" /\ peek_char(l) = "/"
    THEN [l |-> skip_whitespace(SkipLine(l)), skipped |-> TRUE]
    ELSE IF l.ch = "/" /\ peek_char(l) = "*"
    THEN [l |-> skip_whitespace(SkipBlock(read_char(read_char(l)))), skipped |-> TRUE]
    ELSE [l |-> l, skipped |-> FALSE]

RECURSIVE SkipComments(_)
SkipComments(l) ==
    LET r == skip_comment(l) IN IF r.skipped THEN SkipComments(r.l) ELSE l

Slice(s, from, to) == SubSeq(s, from + 1, to)

\* The loop of read_identifier stopping at a digit or '_'.
RECURSIVE IdentifierEnd_letters_only(_)
IdentifierEnd_letters_only(l) ==
    IF l.ch \in Alphabetic THEN IdentifierEnd_letters_only(read_char(l)) ELSE l

RECURSIVE IdentifierEnd(_)
IdentifierEnd(l) ==
    IF l.ch \in Alphabetic \/ l.ch = "_" \/ l.ch \in Digit
    THEN IdentifierEnd(read_char(l))
    ELSE l

read_identifier(l) ==
    LET e == IdentifierEnd(l)
    IN  [l |-> e, ident |-> Slice(l.input, l.position, e.position)]

RECURSIVE DigitsEnd(_)
DigitsEnd(l) == IF l.ch \in Digit THEN DigitsEnd(read_char(l)) ELSE l

\* i64: the decimal digits of i64::MAX
I64MaxDigits ==
    <<"9", "2", "2", "3", "3", "7", "2", "0", "3", "6",
      "8", "5", "4", "7", "7", "5", "8", "0", "7">>

DigitVal(d) ==
    CASE d = "0" -> 0 [] d = "1" -> 1 [] d = "2" -> 2 [] d = "3" -> 3
      [] d = "4" -> 4 [] d = "5" -> 5 [] d = "6" -> 6 [] d = "7" -> 7
      [] d = "8" -> 8 [] d = "9" -> 9

RECURSIVE StripZeros(_)
StripZeros(ds) ==
    IF Len(ds) > 1 /\ Head(ds) = "0" THEN StripZeros(Tail(ds)) ELSE ds

RECURSIVE DigitsGreater(_, _)
DigitsGreater(a, b) ==
    IF a = <<>> THEN FALSE
    ELSE IF DigitVal(Head(a)) # DigitVal(Head(b))
    THEN DigitVal(Head(a)) > DigitVal(Head(b))
    ELSE DigitsGreater(Tail(a), Tail(b))

\* The overflow test of str::parse::<i64> by the number of digits alone.
ExceedsI64_by_length(ds) == Len(ds) > Len(I64MaxDigits)

ExceedsI64(ds) ==
    \/ Len(ds) > Len(I64MaxDigits)
    \/ Len(ds) = Len(I64MaxDigits) /\ DigitsGreater(ds, I64MaxDigits)

\* str::parse::<i64> on a run of digits: Some(value), or None on overflow
ParseI64(number_str) ==
    LET ds == StripZeros(number_str)
    IN  IF ExceedsI64(ds) THEN None ELSE Some(ds)

\* read_number taking a '.' into the number whatever follows it.
read_number_any_dot(l) ==
    LET a == DigitsEnd(l)
        is_float == a.ch = "."
        e == IF is_float THEN DigitsEnd(read_char(a)) ELSE a
        number_str == Slice(l.input, l.position, e.position)
        parsed == ParseI64(number_str)
    IN  [l |-> e,
         tok |-> IF is_float THEN FloatTok(number_str)
                 ELSE IF parsed # None THEN IntegerTok(parsed[1])
                 ELSE IntegerTok(<<"0">>)]

read_number(l) ==
    LET a == DigitsEnd(l)
        is_float == a.ch = "." /\ peek_char(a) \in Digit
        e == IF is_float THEN DigitsEnd(read_char(a)) ELSE a
        number_str == Slice(l.input, l.position, e.position)
        parsed == ParseI64(number_str)
    IN  [l |-> e,
         tok |-> IF is_float THEN FloatTok(number_str)
                 ELSE IF parsed # None THEN IntegerTok(parsed[1])
                 ELSE IntegerTok(<<"0">>)]

Unescape(c) ==
    CASE c = "n" -> "\n" [] c = "t" -> "\t" [] OTHER -> c

\* the loop of read_string, after the opening quote was consumed
RECURSIVE StringBody(_, _)
StringBody(l, acc) ==
    IF l.ch = "\"" THEN [l |-> read_char(l), ok |-> TRUE, s |-> acc]
    ELSE IF l.ch = NUL THEN [l |-> l, ok |-> FALSE, s |-> acc]
    ELSE IF l.ch = "\\"
    THEN LET e == read_char(l)
         IN  StringBody(read_char(e), Append(acc, Unescape(e.ch)))
    ELSE StringBody(read_char(l), Append(acc, l.ch))

read_string(l) == StringBody(read_char(l), <<>>)

Keywords ==
    {<<"l", "e", "t">>, <<"m", "u", "t">>, <<"i", "f">>, <<"e", "l", "s", "e">>,
     <<"l", "o", "o", "p">>, <<"w", "h", "i", "l", "e">>, <<"f", "o", "r">>,
     <<"f", "n">>, <<"r", "e", "t", "u", "r", "n">>, <<"t", "r", "u", "e">>,
     <<"f", "a", "l", "s", "e">>, <<"p", "r", "i", "n", "t">>,
     <<"p", "r", "i", "n", "t", "l", "n">>, <<"b", "r", "e", "a", "k">>,
     <<"c", "o", "n", "t", "i", "n", "u", "e">>}

KeywordToken(ident) ==
    CASE ident = <<"l", "e", "t">> -> Tok("Let")
      [] ident = <<"m", "u", "t">> -> Tok("Mut")
      [] ident = <<"i", "f">> -> Tok("If")
      [] ident = <<"e", "l", "s", "e">> -> Tok("Else")
      [] ident = <<"l", "o", "o", "p">> -> Tok("Loop")
      [] ident = <<"w", "h", "i", "l", "e">> -> Tok("While")
      [] ident = <<"f", "o", "r">> -> Tok("For")
      [] ident = <<"f", "n">> -> Tok("Fn")
      [] ident = <<"r", "e", "t", "u", "r", "n">> -> Tok("Return")
      [] ident = <<"t", "r", "u", "e">> -> Tok("True")
      [] ident = <<"f", "a", "l", "s", "e">> -> Tok("False")
      [] ident = <<"p", "r", "i", "n", "t">> -> Tok("Print")
      [] ident = <<"p", "r", "i", "n", "t", "l", "n">> -> Tok("Println")
      [] ident = <<"b", "r", "e", "a", "k">> -> Tok("Break")
      [] ident = <<"c", "o", "n", "t", "i", "n", "u", "e">> -> Tok("Continue")
      [] OTHER -> IdentifierTok(ident)

\* The two-character operators: the token, and the second character.
TwoCharSecond(c) ==
    CASE c = "=" -> "=" [] c = "!" -> "=" [] c = "<" -> "=" [] c = ">" -> "="
      [] c = "&" -> "&" [] c = "|" -> "|"

TwoCharToken(c) ==
    CASE c = "=" -> Tok("Eq") [] c = "!" -> Tok("NotEq") [] c = "<" -> Tok("Lte")
      [] c = ">" -> Tok("Gte") [] c = "&" -> Tok("And") [] c = "|" -> Tok("Or")

OneCharToken(c) ==
    CASE c = "=" -> Tok("Assign") [] c = "!" -> Tok("Bang") [] c = "<" -> Tok("Lt")
      [] c = ">" -> Tok("Gt") [] c = "+" -> Tok("Plus") [] c = "-" -> Tok("Minus")
      [] c = "*" -> Tok("Multiply") [] c = "/" -> Tok("Divide")
      [] c = "%" -> Tok("Modulo") [] c = "," -> Tok("Comma")
      [] c = ";" -> Tok("Semicolon") [] c = ":" -> Tok("Colon")
      [] c = "(" -> Tok("LParen") [] c = ")" -> Tok("RParen")
      [] c = "{" -> Tok("LBrace") [] c = "}" -> Tok("RBrace")
      [] OTHER -> IllegalTok(c)

TwoCharTypes == {"Eq", "NotEq", "Lte", "Gte", "And", "Or"}

\* current_char_consumed with the character of an Illegal token left in place.
current_char_consumed_illegal_kept(tok) ==
    tok.type \notin ({"Identifier", "Integer", "Float", "String", "Eof", "Illegal"} \cup TwoCharTypes)

\* The last match of next_token: which tokens still have their character to consume.
current_char_consumed(tok) ==
    tok.type \notin ({"Identifier", "Integer", "Float", "String", "Eof"} \cup TwoCharTypes)

\* The first match of next_token on self.ch: the token, and the lexer once the
\* arm has run (an arm that sees the second character of an operator calls
\* read_char once, which moves the cursor onto that second character).
MatchCh(l) ==
    IF l.ch \in {"=", "!", "<", ">", "&", "|"} /\ peek_char(l) = TwoCharSecond(l.ch)
    THEN [l |-> read_char(l), tok |-> TwoCharToken(l.ch)]
    ELSE IF l.ch = "\""
    THEN LET r == read_string(l)
         IN  [l |-> r.l, tok |-> IF r.ok THEN StringTok(r.s) ELSE IllegalTok("\"")]
    ELSE IF l.ch = NUL THEN [l |-> l, tok |-> EofTok]
    ELSE [l |-> l, tok |-> OneCharToken(l.ch)]

next_token(lx) ==
    LET l == SkipComments(skip_whitespace(lx))
    IN  IF l.ch \in Alphabetic \/ l.ch = "_"
        THEN LET r == read_identifier(l) IN [l |-> r.l, tok |-> KeywordToken(r.ident)]
        ELSE IF l.ch \in Digit THEN read_number(l)
        ELSE LET m == MatchCh(l)
             IN  [l |-> IF current_char_consumed(m.tok) THEN read_char(m.l) ELSE m.l,
                  tok |-> m.tok]

\* ----------------------------------------------------------------------- AST

IntegerExpr(val) == [k |-> "Integer", val |-> val]

FloatExpr(f) == [k |-> "Float", f |-> f]

StringLiteral(s) == [k |-> "StringLiteral", s |-> s]

BooleanExpr(b) == [k |-> "Boolean", b |-> b]

IdentifierExpr(name) == [k |-> "Identifier", name |-> name]

BinaryOp(left, op, right) == [k |-> "BinaryOp", left |-> left, op |-> op, right |-> right]

UnaryOp(op, expr) == [k |-> "UnaryOp", op |-> op, expr |-> expr]

Call(callee, args) == [k |-> "Call", callee |-> callee, args |-> args]

LetDecl(name, type_ann, mutable, value_expr) ==
    [k |-> "LetDecl", name |-> name, type_ann |-> type_ann, mutable |-> mutable,
     value_expr |-> value_expr]

Assignment(name, value_expr) == [k |-> "Assignment", name |-> name, value_expr |-> value_expr]

ExprStatement(expr) == [k |-> "ExprStatement", expr |-> expr]

If(condition, then_block, else_if_blocks, else_block) ==
    [k |-> "If", condition |-> condition, then_block |-> then_block,
     else_if_blocks |-> else_if_blocks, else_block |-> else_block]

While(condition, body_block) ==
    [k |-> "While", condition |-> condition, body_block |-> body_block]

Loop(body_block) == [k |-> "Loop", body_block |-> body_block]

For(initializer, condition, increment, body_block) ==
    [k |-> "For", initializer |-> initializer, condition |-> condition,
     increment |-> increment, body_block |-> body_block]

PrintStmt(expr, newline) == [k |-> "Print", expr |-> expr, newline |-> newline]

Break == [k |-> "Break"]

Continue == [k |-> "Continue"]

\* A Block is its statements.
Block(stmts) == [statements |-> stmts]

\* The value carried by a production that returned None.
NoNode == [k |-> "None"]

\* ------------------------------------------------------------ Parser: tokens

LOWEST == 0
OR == 1
AND == 2
EQUALS == 3
LESSGREATER == 4
SUM == 5
PRODUCT == 6
PREFIX == 7
CALL == 8

\* token_precedence with the product operators left at the level of the sum.
token_precedence_product_at_sum(token) ==
    CASE token.type = "Or" -> OR
      [] token.type = "And" -> AND
      [] token.type \in {"Eq", "NotEq"} -> EQUALS
      [] token.type \in {"Lt", "Lte", "Gt", "Gte"} -> LESSGREATER
      [] token.type \in {"Plus", "Minus", "Multiply", "Divide", "Modulo"} -> SUM
      [] token.type = "LParen" -> CALL
      [] OTHER -> LOWEST

token_precedence(token) ==
    CASE token.type = "Or" -> OR
      [] token.type = "And" -> AND
      [] token.type \in {"Eq", "NotEq"} -> EQUALS
      [] token.type \in {"Lt", "Lte", "Gt", "Gte"} -> LESSGREATER
      [] token.type \in {"Plus", "Minus"} -> SUM
      [] token.type \in {"Multiply", "Divide", "Modulo"} -> PRODUCT
      [] token.type = "LParen" -> CALL
      [] OTHER -> LOWEST

InfixTypes ==
    {"Plus", "Minus", "Multiply", "Divide", "Modulo", "Eq", "NotEq",
     "Lt", "Lte", "Gt", "Gte", "And", "Or"}

is_infix_operator(token) == token.type \in InfixTypes

is_prefix_operator(token) == token.type \in {"Bang", "Minus"}

\* The parser's state is its cursor and its errors: current_token is the
\* p-th token the lexer returned and peek_token the one after it (next_token
\* shifts peek into current and pulls one more token, parser.rs:71-74).
TokenAt(ts, i) == IF i <= Len(ts) THEN ts[i] ELSE EofTok

Cur(ts, st) == TokenAt(ts, st.p)

Peek(ts, st) == TokenAt(ts, st.p + 1)

\* Parser::next_token
Advance(st) == [st EXCEPT !.p = @ + 1]

Error(msg, token) == [msg |-> msg, tok |-> token.type]

Push(st, e) == [st EXCEPT !.errs = Append(@, e)]

current_token_is(ts, st, t) == Cur(ts, st).type = t

peek_token_is(ts, st, t) == Peek(ts, st).type = t

peek_error(ts, st, t) == Push(st, Error("expected next token to be " \o t, Peek(ts, st)))

expect_peek(ts, st, t) ==
    IF peek_token_is(ts, st, t)
    THEN [ok |-> TRUE, st |-> Advance(st)]
    ELSE [ok |-> FALSE, st |-> peek_error(ts, st, t)]

current_precedence(ts, st) == token_precedence(Cur(ts, st))

peek_precedence(ts, st) == token_precedence(Peek(ts, st))

\* What a production returns: Some(val) or None, and the parser afterwards.
Ret(val, st) == [some |-> TRUE, val |-> val, st |-> st]

Fail(st) == [some |-> FALSE, val |-> NoNode, st |-> st]

\* ------------------------------------------------------- Parser: expressions

RECURSIVE StripTrailingZeros(_)
StripTrailingZeros(ds) ==
    IF ds # <<>> /\ ds[Len(ds)] = "0"
    THEN StripTrailingZeros(SubSeq(ds, 1, Len(ds) - 1))
    ELSE ds

DotIndexes(s) == {i \in 1..Len(s) : s[i] = "."}

\* str::parse::<f64> on the lexemes read_number produces, digits '.' digits:
\* the value, as its integer digits and its fraction digits without the
\* zeros that do not change it.  Exact for literals of at most 15 significant
\* digits, where an f64 holds the decimal value.  Any other string is taken
\* as not a float.
ParseF64(s_val) ==
    IF /\ Cardinality(DotIndexes(s_val)) = 1
       /\ \A i \in 1..Len(s_val) : s_val[i] \in Digit \cup {"."}
       /\ s_val[1] # "." /\ s_val[Len(s_val)] # "."
    THEN LET d == CHOOSE i \in DotIndexes(s_val) : TRUE
         IN  Some([int |-> StripZeros(SubSeq(s_val, 1, d - 1)),
                   frac |-> StripTrailingZeros(SubSeq(s_val, d + 1, Len(s_val)))])
    ELSE None

BinaryOperatorOf(token) == token.type

UnaryOperatorOf(token) == IF token.type = "Bang" THEN "Not" ELSE "Negate"

RECURSIVE parse_expression(_, _, _)
RECURSIVE InfixLoop(_, _, _)
RECURSIVE parse_prefix_expression(_, _)
RECURSIVE parse_infix_expression(_, _, _)
RECURSIVE parse_grouped_expression(_, _)
RECURSIVE parse_call_expression(_, _, _)
RECURSIVE CallArguments(_, _, _)

parse_float_literal(ts, st) ==
    LET f == ParseF64(Cur(ts, st).lexeme)
    IN  IF f # None THEN Ret(FloatExpr(f[1]), st)
        ELSE Fail(Push(st, Error("Could not parse float string", Cur(ts, st))))

\* The prefix part of parse_expression: the match on current_token.
PrefixPart(ts, st) ==
    LET t == Cur(ts, st)
    IN  CASE t.type = "Identifier" -> Ret(IdentifierExpr(t.name), st)
          [] t.type = "Integer" -> Ret(IntegerExpr(t.val), st)
          [] t.type = "Float" -> parse_float_literal(ts, st)
          [] t.type = "String" -> Ret(StringLiteral(t.s), st)
          [] t.type = "True" -> Ret(BooleanExpr(TRUE), st)
          [] t.type = "False" -> Ret(BooleanExpr(FALSE), st)
          [] is_prefix_operator(t) -> parse_prefix_expression(ts, st)
          [] t.type = "LParen" -> parse_grouped_expression(ts, st)
          [] OTHER -> Fail(Push(st, Error("No prefix parse function", t)))

\* The early return of the prefix match: no prefix parse function.
NoPrefix(t) ==
    t.type \notin {"Identifier", "Integer", "Float", "String", "True", "False",
                   "Bang", "Minus", "LParen"}

\* The infix part of parse_expression: the while loop on peek_token.  `left`
\* is the Option the loop carries; the `?` on it returns None once the
\* operator has been made current.
InfixLoop(ts, left, precedence) ==
    LET st == left.st
    IN  IF peek_token_is(ts, st, "Semicolon") \/ ~(precedence < peek_precedence(ts, st))
        THEN left
        ELSE IF ~is_infix_operator(Peek(ts, st)) /\ Peek(ts, st).type # "LParen"
        THEN left
        ELSE LET nx == Advance(st)
             IN  IF ~left.some THEN Fail(nx)
                 ELSE IF Cur(ts, nx).type = "LParen"
                 THEN InfixLoop(ts, parse_call_expression(ts, nx, left.val), precedence)
                 ELSE InfixLoop(ts, parse_infix_expression(ts, nx, left.val), precedence)

\* parse_expression recording nothing when the current token is Illegal.
parse_expression_illegal_unreported(ts, st, precedence) ==
    IF NoPrefix(Cur(ts, st))
    THEN IF Cur(ts, st).type = "Illegal" THEN Fail(st)
         ELSE Fail(Push(st, Error("No prefix parse function", Cur(ts, st))))
    ELSE InfixLoop(ts, PrefixPart(ts, st), precedence)

parse_expression(ts, st, precedence) ==
    IF NoPrefix(Cur(ts, st))
    THEN Fail(Push(st, Error("No prefix parse function", Cur(ts, st))))
    ELSE InfixLoop(ts, PrefixPart(ts, st), precedence)

parse_prefix_expression(ts, st) ==
    LET op == UnaryOperatorOf(Cur(ts, st))
        r == parse_expression(ts, Advance(st), PREFIX)
    IN  IF r.some THEN Ret(UnaryOp(op, r.val), r.st) ELSE Fail(r.st)

parse_infix_expression(ts, st, left) ==
    LET op == BinaryOperatorOf(Cur(ts, st))
        precedence == current_precedence(ts, st)
        r == parse_expression(ts, Advance(st), precedence)
    IN  IF r.some THEN Ret(BinaryOp(left, op, r.val), r.st) ELSE Fail(r.st)

parse_grouped_expression(ts, st) ==
    LET r == parse_expression(ts, Advance(st), LOWEST)
        e == expect_peek(ts, r.st, "RParen")
    IN  IF ~e.ok THEN Fail(e.st)
        ELSE IF r.some THEN Ret(r.val, e.st) ELSE Fail(e.st)

\* The loop over ", argument" of parse_call_expression; `args` holds the
\* arguments so far and the last argument's last token is current.
CallArguments(ts, st, args) ==
    IF peek_token_is(ts, st, "Comma")
    THEN LET r == parse_expression(ts, Advance(Advance(st)), LOWEST)
         IN  IF r.some THEN CallArguments(ts, r.st, Append(args, r.val))
             ELSE Fail(r.st)
    ELSE Ret(args, st)

\* parse_call_expression without the match on the callee: a call is built on
\* whatever expression stands before the '('.
parse_call_expression_any_callee(ts, st, function_identifier_expr) ==
    LET callee == IF function_identifier_expr.k = "Identifier"
                  THEN function_identifier_expr.name ELSE <<"_">>
    IN  IF peek_token_is(ts, st, "RParen")
        THEN Ret(Call(callee, <<>>), Advance(st))
        ELSE LET first == parse_expression(ts, Advance(st), LOWEST)
             IN  IF ~first.some THEN Fail(first.st)
                 ELSE LET rest == CallArguments(ts, first.st, <<first.val>>)
                      IN  IF ~rest.some THEN Fail(rest.st)
                          ELSE LET e == expect_peek(ts, rest.st, "RParen")
                               IN  IF e.ok THEN Ret(Call(callee, rest.val), e.st)
                                   ELSE Fail(e.st)

parse_call_expression(ts, st, function_identifier_expr) ==
    IF function_identifier_expr.k # "Identifier"
    THEN Fail(Push(st, Error("Expected function name (identifier) for call", Cur(ts, st))))
    ELSE IF peek_token_is(ts, st, "RParen")
    THEN Ret(Call(function_identifier_expr.name, <<>>), Advance(st))
    ELSE LET first == parse_expression(ts, Advance(st), LOWEST)
         IN  IF ~first.some THEN Fail(first.st)
             ELSE LET rest == CallArguments(ts, first.st, <<first.val>>)
                  IN  IF ~rest.some THEN Fail(rest.st)
                      ELSE LET e == expect_peek(ts, rest.st, "RParen")
                           IN  IF e.ok
                               THEN Ret(Call(function_identifier_expr.name, rest.val), e.st)
                               ELSE Fail(e.st)

\* -------------------------------------------------------- Parser: statements
\*
\* A production that parses a sub-production and then continues on its result
\* is written with the continuation as a local operator whose parameter is
\* that result (Value, Body, ...), in the order of the source.

RECURSIVE parse_statement(_, _)
RECURSIVE parse_block_statement(_, _)
RECURSIVE BlockLoop(_, _, _)
RECURSIVE parse_if_statement(_, _)
RECURSIVE ElseArms(_, _, _, _, _)
RECURSIVE parse_for_statement(_, _)

\* The optional ": TYPE" of parse_let_or_mut_statement, with the name current.
TypeAnnotation(ts, st) ==
    IF ~peek_token_is(ts, st, "Colon") THEN Ret(None, st)
    ELSE LET c == Advance(st)
         IN  IF Peek(ts, c).type # "Identifier"
             THEN Fail(peek_error(ts, c, "Identifier(TYPE_NAME)"))
             ELSE Ret(Some(Peek(ts, c).name), Advance(c))

parse_let_or_mut_statement(ts, st) ==
    LET is_mutable == current_token_is(ts, st, "Mut")
        name == Peek(ts, st).name
        Value(ann, v) ==
            IF v.some THEN Ret(LetDecl(name, ann.val, is_mutable, v.val), v.st)
            ELSE Fail(Push(v.st, Error("Expected expression after '=' for variable",
                                       Cur(ts, v.st))))
        Assign(ann) ==
            IF ~ann.some THEN Fail(ann.st)
            ELSE LET a == expect_peek(ts, ann.st, "Assign")
                 IN  IF ~a.ok THEN Fail(a.st)
                     ELSE Value(ann, parse_expression(ts, Advance(a.st), LOWEST))
    IN  IF Peek(ts, st).type # "Identifier"
        THEN Fail(peek_error(ts, st, "Identifier(IDENTIFIER_NAME)"))
        ELSE Assign(TypeAnnotation(ts, Advance(st)))

\* The Identifier arm of parse_statement when peek_token is Assign.
AssignmentArm(ts, st) ==
    LET name == Cur(ts, st).name
        Value(v) ==
            IF v.some THEN Ret(Assignment(name, v.val), v.st)
            ELSE Fail(Push(v.st, Error("Expected expression after '=' for assignment",
                                       Cur(ts, v.st))))
    IN  Value(parse_expression(ts, Advance(Advance(st)), LOWEST))

parse_expression_statement(ts, st) ==
    LET Wrap(r) == IF r.some THEN Ret(ExprStatement(r.val), r.st) ELSE Fail(r.st)
    IN  Wrap(parse_expression(ts, st, LOWEST))

\* parse_print_statement taking the ')' when it is there and going on
\* without it when it is not.
parse_print_statement_unclosed(ts, st) ==
    LET newline == current_token_is(ts, st, "Println")
        lp == expect_peek(ts, st, "LParen")
        Close(r) ==
            IF ~r.some THEN Fail(r.st)
            ELSE Ret(PrintStmt(r.val, newline),
                     IF peek_token_is(ts, r.st, "RParen") THEN Advance(r.st) ELSE r.st)
    IN  IF ~lp.ok THEN Fail(lp.st)
        ELSE Close(parse_expression(ts, Advance(lp.st), LOWEST))

parse_print_statement(ts, st) ==
    LET newline == current_token_is(ts, st, "Println")
        lp == expect_peek(ts, st, "LParen")
        Close(r) ==
            IF ~r.some THEN Fail(r.st)
            ELSE LET rp == expect_peek(ts, r.st, "RParen")
                 IN  IF rp.ok THEN Ret(PrintStmt(r.val, newline), rp.st)
                     ELSE Fail(rp.st)
    IN  IF ~lp.ok THEN Fail(lp.st)
        ELSE Close(parse_expression(ts, Advance(lp.st), LOWEST))

parse_break_statement(ts, st) == Ret(Break, st)

parse_continue_statement(ts, st) == Ret(Continue, st)

\* The while loop of parse_block_statement: one statement, then next_token.
BlockLoop(ts, st, stmts) ==
    LET Turn(r) ==
            BlockLoop(ts, Advance(r.st), IF r.some THEN Append(stmts, r.val) ELSE stmts)
    IN  IF current_token_is(ts, st, "RBrace") \/ current_token_is(ts, st, "Eof")
        THEN Ret(stmts, st)
        ELSE Turn(parse_statement(ts, st))

\* parse_block_statement consuming the '}' that closes the block.
parse_block_statement_past_brace(ts, st) ==
    LET End(r) ==
            IF ~current_token_is(ts, r.st, "RBrace")
            THEN Fail(Push(r.st, Error("Unterminated block: expected '}'", Cur(ts, r.st))))
            ELSE Ret(Block(r.val), Advance(r.st))
    IN  End(BlockLoop(ts, Advance(st), <<>>))

parse_block_statement(ts, st) ==
    LET End(r) ==
            IF ~current_token_is(ts, r.st, "RBrace")
            THEN Fail(Push(r.st, Error("Unterminated block: expected '}'", Cur(ts, r.st))))
            ELSE Ret(Block(r.val), r.st)
    IN  End(BlockLoop(ts, Advance(st), <<>>))

\* "expect_peek(LBrace), else push a second message and return None", then the
\* block: the tail shared by if, else if, else, loop and while.
BracedBlock(ts, st, msg) ==
    LET b == expect_peek(ts, st, "LBrace")
    IN  IF ~b.ok THEN Fail(Push(b.st, Error(msg, Cur(ts, b.st))))
        ELSE parse_block_statement(ts, b.st)

\* The while loop of parse_if_statement without the `break` after the else
\* block: a later else block replaces the one before it.
RECURSIVE ElseLoopUnbroken(_, _, _, _, _, _)
ElseLoopUnbroken(ts, st, condition, then_block, else_if_blocks, else_block) ==
    LET e == Advance(st)
        ElseIfBlock(c, b) ==
            IF ~b.some THEN Fail(b.st)
            ELSE ElseLoopUnbroken(ts, b.st, condition, then_block,
                                  Append(else_if_blocks, <<c.val, b.val>>), else_block)
        ElseIf(c) ==
            IF ~c.some THEN Fail(c.st)
            ELSE ElseIfBlock(c, BracedBlock(ts, c.st, "Expected '{' after else if condition"))
        Else(b) ==
            IF ~b.some THEN Fail(b.st)
            ELSE ElseLoopUnbroken(ts, b.st, condition, then_block, else_if_blocks, Some(b.val))
    IN  IF ~peek_token_is(ts, st, "Else")
        THEN Ret(If(condition, then_block, else_if_blocks, else_block), st)
        ELSE IF peek_token_is(ts, e, "If")
        THEN ElseIf(parse_expression(ts, Advance(Advance(e)), LOWEST))
        ELSE Else(BracedBlock(ts, e, "Expected '{' for else block"))

ElseArms_unbroken(ts, st, condition, then_block, else_if_blocks) ==
    ElseLoopUnbroken(ts, st, condition, then_block, else_if_blocks, None)

\* The while loop of parse_if_statement on peek_token = Else.
ElseArms(ts, st, condition, then_block, else_if_blocks) ==
    LET e == Advance(st)
        ElseIfBlock(c, b) ==
            IF ~b.some THEN Fail(b.st)
            ELSE ElseArms(ts, b.st, condition, then_block,
                          Append(else_if_blocks, <<c.val, b.val>>))
        ElseIf(c) ==
            IF ~c.some THEN Fail(c.st)
            ELSE ElseIfBlock(c, BracedBlock(ts, c.st, "Expected '{' after else if condition"))
        Else(b) ==
            IF ~b.some THEN Fail(b.st)
            ELSE Ret(If(condition, then_block, else_if_blocks, Some(b.val)), b.st)
    IN  IF ~peek_token_is(ts, st, "Else")
        THEN Ret(If(condition, then_block, else_if_blocks, None), st)
        ELSE IF peek_token_is(ts, e, "If")
        THEN ElseIf(parse_expression(ts, Advance(Advance(e)), LOWEST))
        ELSE Else(BracedBlock(ts, e, "Expected '{' for else block"))

parse_if_statement(ts, st) ==
    LET Then(c, b) ==
            IF ~b.some THEN Fail(b.st) ELSE ElseArms(ts, b.st, c.val, b.val, <<>>)
        Condition(c) ==
            IF ~c.some THEN Fail(c.st)
            ELSE Then(c, BracedBlock(ts, c.st, "Expected '{' after if condition"))
    IN  Condition(parse_expression(ts, Advance(st), LOWEST))

parse_loop_statement(ts, st) ==
    LET Body(b) == IF b.some THEN Ret(Loop(b.val), b.st) ELSE Fail(b.st)
    IN  Body(BracedBlock(ts, st, "Expected '{' after 'loop'"))

parse_while_statement(ts, st) ==
    LET Body(c, b) == IF b.some THEN Ret(While(c.val, b.val), b.st) ELSE Fail(b.st)
        Condition(c) ==
            IF ~c.some THEN Fail(c.st)
            ELSE Body(c, BracedBlock(ts, c.st, "Expected '{' after while condition"))
    IN  Condition(parse_expression(ts, Advance(st), LOWEST))

\* An Option as the sequence kept in the AST.
AsOption(r) == IF r.some THEN Some(r.val) ELSE None

\* HeaderSemicolon going on without the ';'.
HeaderSemicolon_optional(ts, st, msg) ==
    IF current_token_is(ts, st, "Semicolon") THEN [ok |-> TRUE, st |-> st]
    ELSE IF peek_token_is(ts, st, "Semicolon") THEN [ok |-> TRUE, st |-> Advance(st)]
    ELSE [ok |-> TRUE, st |-> st]

\* "if current is not ';': step onto a ';' in peek, else push msg and return
\* None", the check after the initializer and after the condition of a for.
HeaderSemicolon(ts, st, msg) ==
    IF current_token_is(ts, st, "Semicolon") THEN [ok |-> TRUE, st |-> st]
    ELSE IF peek_token_is(ts, st, "Semicolon") THEN [ok |-> TRUE, st |-> Advance(st)]
    ELSE [ok |-> FALSE, st |-> Push(st, Error(msg, Cur(ts, st)))]

\* The increment of a for: absent only when current_token is RParen.
ForIncrement(ts, st) ==
    IF current_token_is(ts, st, "RParen") THEN Fail(st)
    ELSE parse_expression(ts, st, LOWEST)

\* The end of parse_for_statement, from the parsed increment `inc` on.
ForBody(ts, inc, initializer, condition) ==
    LET b == IF current_token_is(ts, inc.st, "LBrace")
             THEN [ok |-> TRUE, st |-> inc.st]
             ELSE expect_peek(ts, inc.st, "LBrace")
        Body(body) ==
            IF ~body.some THEN Fail(body.st)
            ELSE Ret(For(initializer, condition, AsOption(inc), body.val), body.st)
    IN  IF ~b.ok
        THEN Fail(Push(b.st, Error("Expected '{' for for-loop body", Cur(ts, b.st))))
        ELSE Body(parse_block_statement(ts, b.st))

parse_for_statement(ts, st) ==
    LET f == Advance(st)
        Increment(init, cond) ==
            LET s2 == HeaderSemicolon(ts, cond.st, "Expected ';' after for loop condition")
            IN  IF ~s2.ok THEN Fail(s2.st)
                ELSE ForBody(ts, ForIncrement(ts, Advance(s2.st)),
                             AsOption(init), AsOption(cond))
        Condition(init) ==
            LET s1 == HeaderSemicolon(ts, init.st, "Expected ';' after for loop initializer")
                c == Advance(s1.st)
            IN  IF ~s1.ok THEN Fail(s1.st)
                ELSE Increment(init, IF current_token_is(ts, c, "Semicolon") THEN Fail(c)
                                     ELSE parse_expression(ts, c, LOWEST))
    IN  Condition(IF current_token_is(ts, f, "Semicolon") THEN Fail(f)
                  ELSE parse_statement(ts, f))

\* The kinds of statement after which parse_statement takes an optional ';'.
SemicolonKinds == {"LetDecl", "Assignment", "ExprStatement", "Print", "Break", "Continue"}

\* The match on current_token that opens parse_statement.
\* The match of parse_statement without its Token::Semicolon arm: a bare ';'
\* falls to parse_expression_statement.
Dispatch_no_empty_statement(ts, st) ==
    LET t == Cur(ts, st).type
    IN  CASE t \in {"Let", "Mut"} -> parse_let_or_mut_statement(ts, st)
          [] t = "If" -> parse_if_statement(ts, st)
          [] t = "Loop" -> parse_loop_statement(ts, st)
          [] t = "While" -> parse_while_statement(ts, st)
          [] t = "For" -> parse_for_statement(ts, st)
          [] t \in {"Print", "Println"} -> parse_print_statement(ts, st)
          [] t = "Break" -> parse_break_statement(ts, st)
          [] t = "Continue" -> parse_continue_statement(ts, st)
          [] t = "Identifier" /\ peek_token_is(ts, st, "Assign") -> AssignmentArm(ts, st)
          [] OTHER -> parse_expression_statement(ts, st)

Dispatch(ts, st) ==
    LET t == Cur(ts, st).type
    IN  CASE t \in {"Let", "Mut"} -> parse_let_or_mut_statement(ts, st)
          [] t = "If" -> parse_if_statement(ts, st)
          [] t = "Loop" -> parse_loop_statement(ts, st)
          [] t = "While" -> parse_while_statement(ts, st)
          [] t = "For" -> parse_for_statement(ts, st)
          [] t \in {"Print", "Println"} -> parse_print_statement(ts, st)
          [] t = "Break" -> parse_break_statement(ts, st)
          [] t = "Continue" -> parse_continue_statement(ts, st)
          [] t = "Identifier" /\ peek_token_is(ts, st, "Assign") -> AssignmentArm(ts, st)
          [] t = "Semicolon" -> Fail(st)
          [] OTHER -> parse_expression_statement(ts, st)

\* parse_statement with the ';' taken by expect_peek.
parse_statement_semicolon_expected(ts, st) ==
    LET Semicolon(stmt) ==
            IF stmt.some /\ stmt.val.k \in SemicolonKinds
            THEN Ret(stmt.val, expect_peek(ts, stmt.st, "Semicolon").st)
            ELSE stmt
    IN  Semicolon(Dispatch(ts, st))

parse_statement(ts, st) ==
    LET Semicolon(stmt) ==
            IF /\ stmt.some
               /\ stmt.val.k \in SemicolonKinds
               /\ peek_token_is(ts, stmt.st, "Semicolon")
            THEN Ret(stmt.val, Advance(stmt.st))
            ELSE stmt
    IN  Semicolon(Dispatch(ts, st))

\* ProgramStep without the next_token that ends the turn.
ProgramStep_no_next_token(ts, st, stmts) ==
    LET Turn(r) ==
            [st |-> r.st, stmts |-> IF r.some THEN Append(stmts, r.val) ELSE stmts]
    IN  Turn(parse_statement(ts, st))

\* One turn of the loop of parse_program: parse_statement, push, next_token.
ProgramStep(ts, st, stmts) ==
    LET Turn(r) ==
            [st |-> Advance(r.st), stmts |-> IF r.some THEN Append(stmts, r.val) ELSE stmts]
    IN  Turn(parse_statement(ts, st))

RECURSIVE ProgramLoop(_, _, _)
ProgramLoop(ts, st, stmts) ==
    IF current_token_is(ts, st, "Eof") THEN [st |-> st, stmts |-> stmts]
    ELSE LET n == ProgramStep(ts, st, stmts) IN ProgramLoop(ts, n.st, n.stmts)

\* Parser::new followed by parse_program, on the token stream ts.
parse_program(ts) ==
    LET r == ProgramLoop(ts, [p |-> 1, errs |-> <<>>], <<>>)
    IN  IF r.st.errs = <<>>
        THEN [ok |-> TRUE, program |-> r.stmts, errors |-> <<>>]
        ELSE [ok |-> FALSE, program |-> <<>>, errors |-> r.st.errs]

\* ----------------------------------------------------------------- generator

RECURSIVE Spaces(_)
Spaces(n) == IF n = 0 THEN <<>> ELSE <<" ">> \o Spaces(n - 1)

IndentWidth == 4

indent(level) == Spaces(IndentWidth * level)

map_type(simple_type) ==
    CASE simple_type = <<"i", "n", "t">> -> <<"i", "6", "4">>
      [] simple_type = <<"f", "l", "o", "a", "t">> -> <<"f", "6", "4">>
      [] simple_type = <<"b", "o", "o", "l">> -> <<"b", "o", "o", "l">>
      [] simple_type = <<"s", "t", "r", "i", "n", "g">> -> <<"S", "t", "r", "i", "n", "g">>
      [] OTHER -> simple_type

\* char::escape_default, on the characters the model's texts hold: the
\* printable ASCII characters are kept as they are.
EscapeChar(c) ==
    CASE c = "\t" -> <<"\\", "t">>
      [] c = "\r" -> <<"\\", "r">>
      [] c = "\n" -> <<"\\", "n">>
      [] c = "'" -> <<"\\", "'">>
      [] c = "\"" -> <<"\\", "\"">>
      [] c = "\\" -> <<"\\", "\\">>
      [] c = "\f" -> <<"\\", "u", "{", "c", "}">>
      [] c = NUL -> <<"\\", "u", "{", "0", "}">>
      [] OTHER -> <<c>>

RECURSIVE escape_default(_)
escape_default(s) ==
    IF s = <<>> THEN <<>> ELSE EscapeChar(Head(s)) \o escape_default(Tail(s))

\* Display of an f64: the shortest decimal that reads back as the value.
DisplayF64(f) == IF f.frac = <<>> THEN f.int ELSE f.int \o <<".">> \o f.frac

OperatorText(op) ==
    CASE op = "Plus" -> <<"+">> [] op = "Minus" -> <<"-">>
      [] op = "Multiply" -> <<"*">> [] op = "Divide" -> <<"/">>
      [] op = "Modulo" -> <<"%">> [] op = "Eq" -> <<"=", "=">>
      [] op = "NotEq" -> <<"!", "=">> [] op = "Lt" -> <<"<">>
      [] op = "Lte" -> <<"<", "=">> [] op = "Gt" -> <<">">>
      [] op = "Gte" -> <<">", "=">> [] op = "And" -> <<"&", "&">>
      [] op = "Or" -> <<"|", "|">>

RECURSIVE generate_expression(_)
RECURSIVE GenerateArguments(_, _)

\* The loop over args of the Call arm: ", " before every argument but the first.
GenerateArguments(args, i) ==
    IF i > Len(args) THEN <<>>
    ELSE (IF i > 1 THEN <<",", " ">> ELSE <<>>)
         \o generate_expression(args[i]) \o GenerateArguments(args, i + 1)

\* BinaryText without the parentheses of its own.
BinaryText_bare(left, op, right) ==
    left \o <<" ">> \o OperatorText(op) \o <<" ">> \o right

BinaryText(left, op, right) ==
    <<"(">> \o left \o <<" ">> \o OperatorText(op) \o <<" ">> \o right \o <<")">>

UnaryText(op, operand) ==
    <<"(">> \o (IF op = "Not" THEN <<"!">> ELSE <<"-">>) \o operand \o <<")">>

generate_expression(expression) ==
    CASE expression.k = "Integer" -> expression.val \o <<"_", "i", "6", "4">>
      [] expression.k = "Float" ->
           IF expression.f.frac = <<>>
           THEN DisplayF64(expression.f) \o <<".", "0", "_", "f", "6", "4">>
           ELSE DisplayF64(expression.f) \o <<"_", "f", "6", "4">>
      [] expression.k = "StringLiteral" ->
           <<"\"">> \o escape_default(expression.s) \o <<"\"">>
      [] expression.k = "Boolean" ->
           IF expression.b THEN <<"t", "r", "u", "e">> ELSE <<"f", "a", "l", "s", "e">>
      [] expression.k = "Identifier" -> expression.name
      [] expression.k = "BinaryOp" ->
           BinaryText(generate_expression(expression.left), expression.op,
                      generate_expression(expression.right))
      [] expression.k = "UnaryOp" ->
           UnaryText(expression.op, generate_expression(expression.expr))
      [] expression.k = "Call" ->
           expression.callee \o <<"(">> \o GenerateArguments(expression.args, 1) \o <<")">>

RECURSIVE trim_start(_)
trim_start(s) ==
    IF s # <<>> /\ Head(s) \in Whitespace THEN trim_start(Tail(s)) ELSE s

RECURSIVE generate_statement(_, _)
RECURSIVE GenerateStatements(_, _, _)
RECURSIVE GenerateElseIfs(_, _, _)

\* "for statement in statements { generate_statement(statement, writer, level) }"
GenerateStatements(stmts, i, level) ==
    IF i > Len(stmts) THEN <<>>
    ELSE generate_statement(stmts[i], level) \o GenerateStatements(stmts, i + 1, level)

\* generate_block without the closing line.
generate_block_unclosed(block, indent_level) ==
    <<"{", "\n">> \o GenerateStatements(block.statements, 1, indent_level + 1)

generate_block(block, indent_level) ==
    <<"{", "\n">> \o GenerateStatements(block.statements, 1, indent_level + 1)
    \o indent(indent_level) \o <<"}">>

GenerateElseIfs(arms, i, indent_level) ==
    IF i > Len(arms) THEN <<>>
    ELSE <<" ", "e", "l", "s", "e", " ", "i", "f", " ">> \o generate_expression(arms[i][1]) \o <<" ">>
         \o generate_block(arms[i][2], indent_level)
         \o GenerateElseIfs(arms, i + 1, indent_level)

\* ForText with the increment written before the body.
ForText_increment_first(init, cond, body, inc, indent_level) ==
    init \o <<"w", "h", "i", "l", "e", " ">> \o cond \o <<" ">> \o <<"{", "\n">>
    \o inc \o body \o indent(indent_level) \o <<"}", "\n">>

\* The For arm of generate_statement, after the line's indentation:
\* the pieces in the order they are written.
ForText(init, cond, body, inc, indent_level) ==
    init \o <<"w", "h", "i", "l", "e", " ">> \o cond \o <<" ">> \o <<"{", "\n">>
    \o body \o inc \o indent(indent_level) \o <<"}", "\n">>

generate_statement(statement, indent_level) ==
    indent(indent_level) \o
    CASE statement.k = "LetDecl" ->
           <<"l", "e", "t", " ">> \o (IF statement.mutable THEN <<"m", "u", "t", " ">> ELSE <<>>)
           \o statement.name
           \o (IF statement.type_ann # None
               THEN <<":", " ">> \o map_type(statement.type_ann[1]) ELSE <<>>)
           \o <<" ", "=", " ">> \o generate_expression(statement.value_expr)
           \o <<";", "\n">>
      [] statement.k = "Assignment" ->
           statement.name \o <<" ", "=", " ">>
           \o generate_expression(statement.value_expr) \o <<";", "\n">>
      [] statement.k = "ExprStatement" ->
           generate_expression(statement.expr) \o <<";", "\n">>
      [] statement.k = "If" ->
           <<"i", "f", " ">> \o generate_expression(statement.condition) \o <<" ">>
           \o generate_block(statement.then_block, indent_level)
           \o GenerateElseIfs(statement.else_if_blocks, 1, indent_level)
           \o (IF statement.else_block # None
               THEN <<" ", "e", "l", "s", "e", " ">> \o generate_block(statement.else_block[1], indent_level)
               ELSE <<>>)
           \o <<"\n">>
      [] statement.k = "Loop" ->
           <<"l", "o", "o", "p", " ">> \o generate_block(statement.body_block, indent_level)
           \o <<"\n">>
      [] statement.k = "While" ->
           <<"w", "h", "i", "l", "e", " ">> \o generate_expression(statement.condition) \o <<" ">>
           \o generate_block(statement.body_block, indent_level) \o <<"\n">>
      [] statement.k = "For" ->
           ForText(IF statement.initializer # None
                   THEN trim_start(generate_statement(statement.initializer[1], 0))
                   ELSE <<>>,
                   IF statement.condition # None
                   THEN generate_expression(statement.condition[1])
                   ELSE <<"t", "r", "u", "e">>,
                   GenerateStatements(statement.body_block.statements, 1, indent_level + 1),
                   IF statement.increment # None
                   THEN indent(indent_level + 1)
                        \o generate_expression(statement.increment[1]) \o <<";", "\n">>
                   ELSE <<>>,
                   indent_level)
      [] statement.k = "Print" ->
           (IF statement.newline THEN <<"p", "r", "i", "n", "t", "l", "n", "!">> ELSE <<"p", "r", "i", "n", "t", "!">>)
           \o <<"(", "\"", "{", "}", "\"", ",", " ">> \o generate_expression(statement.expr)
           \o <<")", ";", "\n">>
      [] statement.k = "Break" -> <<"b", "r", "e", "a", "k", ";", "\n">>
      [] statement.k = "Continue" -> <<"c", "o", "n", "t", "i", "n", "u", "e", ";", "\n">>

MainOpen == <<"f", "n", " ", "m", "a", "i", "n", "(", ")", " ", "{", "\n">>

MainClose == <<"}", "\n">>

generate(program) == MainOpen \o GenerateStatements(program, 1, 1) \o MainClose

\* ------------------------------------------------------------ source texts

\* lexer.rs test_operators_and_delimiters
SrcTwoCharOperators ==
    <<"=", "=", " ", "!", "=", " ", "<", "=", " ", ">", "=", " ", "&", "&",
      " ", "|", "|">>

\* lexer.rs test_simple_tokens
SrcSimpleTokens ==
    <<"=", "+", "-", "*", "/", "%", "(", ")", "{", "}", ",", ";", ":", "!">>

\* generator.rs test_generate_let_and_assign
SrcLetAndAssign ==
    <<"l", "e", "t", " ", "x", " ", "=", " ", "1", "0", ";", " ", "l", "e",
      "t", " ", "m", "u", "t", " ", "y", ":", " ", "f", "l", "o", "a", "t",
      " ", "=", " ", "2", "0", ".", "0", ";", " ", "y", " ", "=", " ", "x",
      " ", "+", " ", "1", "5", ".", "5", ";">>

\* the same declarations, written with mut alone
SrcLetFloat ==
    <<"l", "e", "t", " ", "x", " ", "=", " ", "1", "0", ";", " ", "m", "u",
      "t", " ", "y", ":", " ", "f", "l", "o", "a", "t", " ", "=", " ", "2",
      "0", ".", "0", ";", " ", "y", " ", "=", " ", "x", " ", "+", " ", "1",
      "5", ".", "5", ";">>

\* generator.rs test_generate_let_and_assign
SrcMutCount ==
    <<"m", "u", "t", " ", "c", "o", "u", "n", "t", " ", "=", " ", "0">>

\* a declaration written "let mut"
SrcLetMut ==
    <<"l", "e", "t", " ", "m", "u", "t", " ", "n", " ", "=", " ", "1">>

\* generator.rs test_generate_for_loop_as_while
SrcForParenthesized ==
    <<"f", "o", "r", " ", "(", "l", "e", "t", " ", "i", " ", "=", " ", "0",
      ";", " ", "i", " ", "<", " ", "3", ";", " ", "i", " ", "=", " ", "i",
      " ", "+", " ", "1", ")", " ", "{", " ", "p", "r", "i", "n", "t", "l",
      "n", "(", "i", ")", ";", " ", "}">>

\* parser.rs test_for_statement_minimal
SrcForMinimal ==
    <<"f", "o", "r", " ", ";", ";", " ", "{", " ", "b", "r", "e", "a", "k",
      " ", "}">>

\* parser.rs test_for_statement_only_condition
SrcForOnlyCondition ==
    <<"f", "o", "r", " ", ";", " ", "i", " ", "<", " ", "1", "0", " ", ";",
      " ", "{", " ", "i", " ", "=", " ", "i", " ", "+", " ", "1", " ", "}">>

\* parser.rs test_for_statement_complete
SrcForComplete ==
    <<"f", "o", "r", " ", "l", "e", "t", " ", "i", " ", "=", " ", "0", ";",
      " ", "i", " ", "<", " ", "1", "0", ";", " ", "i", " ", "=", " ", "i",
      " ", "+", " ", "1", " ", "{", " ", "p", "r", "i", "n", "t", "(", "i",
      ")", "\n", " ", "p", "r", "i", "n", "t", "(", "i", "*", "2", ")", " ",
      "}">>

\* a for whose increment is a call
SrcForCallIncrement ==
    <<"f", "o", "r", " ", "l", "e", "t", " ", "i", " ", "=", " ", "0", ";",
      " ", "i", " ", "<", " ", "3", ";", " ", "s", "t", "e", "p", "(", "i",
      ")", " ", "{", " ", "p", "r", "i", "n", "t", "l", "n", "(", "i", ")",
      ";", " ", "}">>

\* a for with only an increment
SrcForOnlyIncrement ==
    <<"f", "o", "r", " ", ";", ";", " ", "t", "i", "c", "k", "(", ")", " ",
      "{", " ", "b", "r", "e", "a", "k", " ", "}">>

\* a for whose initializer is break
SrcForBreakInitializer ==
    <<"f", "o", "r", " ", "b", "r", "e", "a", "k", ";", " ", ";", " ", "x",
      " ", "{", " ", "}">>

\* a for whose initializer is an if
SrcForIfInitializer ==
    <<"f", "o", "r", " ", "i", "f", " ", "c", " ", "{", " ", "}", " ", ";",
      " ", ";", " ", "x", " ", "{", " ", "}">>

\* generator.rs test_generate_arithmetic_and_boolean_expressions
SrcArithmetic ==
    <<"l", "e", "t", " ", "v", " ", "=", " ", "(", "1", " ", "+", " ", "2",
      ")", " ", "*", " ", "3", " ", "-", " ", "4", " ", "/", " ", "2", " ",
      "%", " ", "3", ";">>

\* parser.rs test_sequence_of_statements_mixed_semicolons
SrcMixedSemicolons ==
    <<"l", "e", "t", " ", "x", " ", "=", " ", "1", "0", "\n", "l", "e", "t",
      " ", "y", " ", "=", " ", "2", "0", ";", "\n", "x", " ", "=", " ", "x",
      " ", "+", " ", "y", "\n", "p", "r", "i", "n", "t", "(", "x", ")", ";",
      "\n", "l", "e", "t", " ", "z", " ", "=", " ", "\"", "d", "o", "n", "e",
      "\"", "\n">>

\* a declaration without ';' before a parenthesized statement
SrcLetThenGroup ==
    <<"l", "e", "t", " ", "a", " ", "=", " ", "b", "\n", "(", "c", ")">>

\* the same with the ';'
SrcLetThenGroupSemicolon ==
    <<"l", "e", "t", " ", "a", " ", "=", " ", "b", ";", "\n", "(", "c", ")">>

\* a string literal holding a brace
SrcPrintBrace ==
    <<"p", "r", "i", "n", "t", "(", "\"", "{", "\"", ")">>

\* generator.rs test_generate_print_statements
SrcPrints ==
    <<"p", "r", "i", "n", "t", "(", "1", "2", "3", ")", ";", " ", "p", "r",
      "i", "n", "t", "l", "n", "(", "\"", "h", "e", "l", "l", "o", "\"", ")",
      ";", " ", "p", "r", "i", "n", "t", "(", "t", "r", "u", "e", ")", ";">>

\* generator.rs test_generate_if_else_if_else
SrcIfElse ==
    <<"i", "f", " ", "(", "x", " ", ">", " ", "1", "0", ")", " ", "{", " ",
      "p", "r", "i", "n", "t", "(", "1", ")", ";", " ", "}", " ", "e", "l",
      "s", "e", " ", "i", "f", " ", "(", "x", " ", "<", " ", "5", ")", " ",
      "{", " ", "p", "r", "i", "n", "t", "(", "2", ")", ";", " ", "}", " ",
      "e", "l", "s", "e", " ", "{", " ", "p", "r", "i", "n", "t", "(", "3",
      ")", ";", " ", "}">>

\* parser.rs test_while_statement_parsing
SrcWhile ==
    <<"w", "h", "i", "l", "e", " ", "c", "o", "u", "n", "t", " ", "<", " ",
      "1", "0", " ", "{", " ", "c", "o", "u", "n", "t", " ", "=", " ", "c",
      "o", "u", "n", "t", " ", "+", " ", "1", "\n", " ", "c", "o", "n", "t",
      "i", "n", "u", "e", ";", " ", "}">>

\* parser.rs test_loop_statement_parsing
SrcLoop ==
    <<"l", "o", "o", "p", " ", "{", " ", "p", "r", "i", "n", "t", "(", "1",
      ")", "\n", " ", "b", "r", "e", "a", "k", " ", "}">>

\* grouping parentheses around operands
SrcGrouped ==
    <<"(", "(", "a", ")", ")", ";", " ", "(", "-", "a", ")", " ", "*", " ",
      "!", "b">>

\* parser.rs test_call_expression_parsing
SrcCall ==
    <<"m", "y", "F", "u", "n", "c", "t", "i", "o", "n", "(", "a", "r", "g",
      "1", ",", " ", "2", ".", "5", ",", " ", "a", "r", "g", "3", " ", "+",
      " ", "4", ")">>

Sources ==
    {SrcTwoCharOperators,
     SrcSimpleTokens,
     SrcLetAndAssign,
     SrcLetFloat,
     SrcMutCount,
     SrcLetMut,
     SrcForParenthesized,
     SrcForMinimal,
     SrcForOnlyCondition,
     SrcForComplete,
     SrcForCallIncrement,
     SrcForOnlyIncrement,
     SrcForBreakInitializer,
     SrcForIfInitializer,
     SrcArithmetic,
     SrcMixedSemicolons,
     SrcLetThenGroup,
     SrcLetThenGroupSemicolon,
     SrcPrintBrace,
     SrcPrints,
     SrcIfElse,
     SrcWhile,
     SrcLoop,
     SrcGrouped,
     SrcCall}

\* ------------------------------------------------------------ state machine
\*
\* drawn       the input as it was chosen: here the source text
\* lexer       the Lexer: input, position, read_position, ch
\* tokens      the tokens next_token has returned, in order
\* phase       "lex", "parse", "generate" or "done"
\* cursor      the Parser: current_token is tokens[cursor], peek_token the next
\* statements  program.statements of parse_program
\* errors      Parser.errors
\* result      what parse_program returned
\* output      rust_code of generate
\* gen_index   the statement generate's loop is at (0: nothing written yet)
\*
\* The Parser pulls its tokens from the Lexer one at a time; the Lexer does
\* not depend on the Parser, so the stream is drawn first and parsed after.

\* main at one of its steps, with the stages it has performed so far, each
\* with its success; `returned` is what main has returned, if it has.
Running(step, stages) == [step |-> step, stages |-> stages, returned |-> "none"]

NoResult == [kind |-> "none"]

Ok(program) == [kind |-> "Ok", program |-> program]

\* Err carrying only the first recorded message.
Err_first_only(errs) == [kind |-> "Err", errors |-> <<errs[1]>>]

Err(errs) == [kind |-> "Err", errors |-> errs]

EofCalls(ts) == Cardinality({i \in 1..Len(ts) : ts[i] = EofTok})

Start(d, l, ts, ph) ==
    /\ drawn = d
    /\ lexer = l
    /\ tokens = ts
    /\ phase = ph
    /\ cursor = IF ph = "lex" THEN 0 ELSE 1
    /\ statements = <<>>
    /\ errors = <<>>
    /\ result = NoResult
    /\ output = <<>>
    /\ gen_index = 0
    /\ driver = Running("translate", <<>>)

\* Lexer::new on a source text
Init == \E src \in Sources : Start(src, LexerNew(src), <<>>, "lex")

\* Lexer::next_token
LexNextToken ==
    /\ phase = "lex"
    /\ EofCalls(tokens) < MaxEofCalls
    /\ LET r == next_token(lexer)
       IN  /\ lexer' = r.l
           /\ tokens' = Append(tokens, r.tok)
    /\ UNCHANGED <<drawn, phase, cursor, statements, errors, result, output, gen_index, driver>>

\* Parser::new: the first two tokens become current_token and peek_token
ParserNew ==
    /\ phase = "lex"
    /\ tokens # <<>> /\ tokens[Len(tokens)] = EofTok
    /\ phase' = "parse"
    /\ cursor' = 1
    /\ UNCHANGED <<drawn, lexer, tokens, statements, errors, result, output, gen_index, driver>>

\* parse_program: one turn of its loop
ParseStatement ==
    /\ phase = "parse"
    /\ TokenAt(tokens, cursor) # EofTok
    /\ LET n == ProgramStep(tokens, [p |-> cursor, errs |-> errors], statements)
       IN  /\ cursor' = n.st.p
           /\ errors' = n.st.errs
           /\ statements' = n.stmts
    /\ UNCHANGED <<drawn, lexer, tokens, phase, result, output, gen_index, driver>>

\* parse_program: the return, once current_token is Eof
ParseReturn ==
    /\ phase = "parse"
    /\ TokenAt(tokens, cursor) = EofTok
    /\ result' = IF errors = <<>> THEN Ok(statements) ELSE Err(errors)
    /\ phase' = IF errors = <<>> THEN "generate" ELSE "done"
    /\ UNCHANGED <<drawn, lexer, tokens, cursor, statements, errors, output, gen_index, driver>>

\* generate: the opening line
GenerateOpen ==
    /\ phase = "generate" /\ gen_index = 0
    /\ output' = MainOpen
    /\ gen_index' = 1
    /\ UNCHANGED <<drawn, lexer, tokens, phase, cursor, statements, errors, result, driver>>

\* generate: one turn of the loop over program.statements
GenerateStatement ==
    /\ phase = "generate" /\ gen_index \in 1..Len(result.program)
    /\ output' = output \o generate_statement(result.program[gen_index], 1)
    /\ gen_index' = gen_index + 1
    /\ UNCHANGED <<drawn, lexer, tokens, phase, cursor, statements, errors, result, driver>>

\* generate: the closing line, and the return
GenerateClose ==
    /\ phase = "generate" /\ gen_index = Len(result.program) + 1
    /\ output' = output \o MainClose
    /\ phase' = "done"
    /\ UNCHANGED <<drawn, lexer, tokens, cursor, statements, errors, result, gen_index, driver>>

Next ==
    \/ LexNextToken
    \/ ParserNew
    \/ ParseStatement
    \/ ParseReturn
    \/ GenerateOpen
    \/ GenerateStatement
    \/ GenerateClose

Spec == Init /\ [][Next]_vars

\* =================================================================== claims
\*
\* Observations shared by the claims.

\* Lexing is over: next_token has returned Eof.
LexedAll == tokens # <<>> /\ tokens[Len(tokens)] = EofTok

TokenTypes(ts) == [i \in 1..Len(ts) |-> ts[i].type]

\* The tokens before the first Eof.
RECURSIVE BeforeEof(_)
BeforeEof(ts) ==
    IF ts = <<>> \/ Head(ts) = EofTok THEN <<>> ELSE <<Head(ts)>> \o BeforeEof(Tail(ts))

\* parse_program has returned.
ParseReturned == result # NoResult

\* The run is over: generate has returned, or parse_program returned Err.
Finished == phase = "done"

Contains(text, sub) ==
    \E i \in 0..(Len(text) - Len(sub)) : SubSeq(text, i + 1, i + Len(sub)) = sub

\* The places (offsets) where sub stands in text.
Places(text, sub) ==
    {i \in 0..(Len(text) - Len(sub)) : SubSeq(text, i + 1, i + Len(sub)) = sub}

\* The texts of subs stand in text one after the other, in this order.
RECURSIVE InOrder(_, _, _)
InOrder(text, subs, from) ==
    \/ subs = <<>>
    \/ \E i \in Places(text, Head(subs)) :
          i >= from /\ InOrder(text, Tail(subs), i + Len(Head(subs)))

\* ------------------------------------------------------------------------ C1

\* C1: for each two-character operator (==, !=, <=, >=, &&, ||) next_token
\* returns one token and leaves the cursor on the byte right after the
\* operator's second character; the text "== != <= >= && ||" lexes as exactly
\* Eq, NotEq, Lte, Gte, And, Or.
C1_TwoCharOperatorIsOneToken ==
    /\ (tokens # <<>> /\ tokens[Len(tokens)].type \in TwoCharTypes) =>
          /\ lexer.position >= 2
          /\ Slice(lexer.input, lexer.position - 2, lexer.position)
                = OperatorText(tokens[Len(tokens)].type)
    /\ (drawn = SrcTwoCharOperators /\ LexedAll) =>
          TokenTypes(BeforeEof(tokens)) = <<"Eq", "NotEq", "Lte", "Gte", "And", "Or">>

\* What the code does on "==": Eq, and then the second '=' again as Assign.
C1_SecondCharacterLexedAgain ==
    /\ drawn = SrcTwoCharOperators
    /\ Len(tokens) >= 2
    /\ tokens[1] = Tok("Eq") /\ tokens[2] = Tok("Assign")

\* ------------------------------------------------------------------------ C3

\* C3: "let x = 10; let mut y: float = 20.0; y = x + 15.5;" parses without
\* error and the emitted text holds "let x = 10_i64;", "let mut y: f64 =
\* 20.0_f64;" and "y = (x + 15.5_f64);"; a declaration written "let mut NAME"
\* is a mutable LetDecl.
C3_LetMutAccepted ==
    /\ (drawn = SrcLetAndAssign /\ Finished) =>
          /\ result.kind = "Ok"
          /\ Contains(output, <<"l", "e", "t", " ", "x", " ", "=", " ", "1", "0", "_", "i", "6", "4", ";">>)
          /\ Contains(output, <<"l", "e", "t", " ", "m", "u", "t", " ", "y", ":", " ", "f", "6", "4", " ", "=", " ", "2", "0", ".", "0", "_", "f", "6", "4", ";">>)
          /\ Contains(output, <<"y", " ", "=", " ", "(", "x", " ", "+", " ", "1", "5", ".", "5", "_", "f", "6", "4", ")", ";">>)
    /\ (drawn = SrcLetMut /\ ParseReturned) =>
          result = Ok(<<LetDecl(<<"n">>, None, TRUE, IntegerExpr(<<"1">>))>>)

\* What the code does on "let mut": the error of parse_let_or_mut_statement.
C3_LetMutRejected ==
    /\ drawn = SrcLetAndAssign
    /\ Finished
    /\ result = Err(<<Error("expected next token to be Identifier(IDENTIFIER_NAME)",
                            Tok("Mut"))>>)

\* ------------------------------------------------------------------------ C4

\* The first character of text after offset `from` that is not white space.
RECURSIVE NextVisible(_, _)
NextVisible(text, from) ==
    IF from >= Len(text) THEN NUL
    ELSE IF text[from + 1] \in Whitespace THEN NextVisible(text, from + 1)
    ELSE text[from + 1]

\* C4: "for (let i = 0; i < 3; i = i + 1) { println(i); }" parses without
\* error and the emitted text holds, in this order, a let declaration of i,
\* "while (i < 3_i64) {", the println! of i, and "i = (i + 1_i64);" as the
\* last statement of the while body.
C4_ParenthesizedForEmitted ==
    (drawn = SrcForParenthesized /\ Finished) =>
       /\ result.kind = "Ok"
       /\ InOrder(output,
                  <<<<"l", "e", "t", " ", "i", " ", "=", " ", "0", "_", "i", "6", "4", ";">>, <<"w", "h", "i", "l", "e", " ", "(", "i", " ", "<", " ", "3", "_", "i", "6", "4", ")", " ", "{">>,
                    <<"p", "r", "i", "n", "t", "l", "n", "!", "(", "\"", "{", "}", "\"", ",", " ", "i", ")", ";">>, <<"i", " ", "=", " ", "(", "i", " ", "+", " ", "1", "_", "i", "6", "4", ")", ";">>>>, 0)
       /\ \A i \in Places(output, <<"i", " ", "=", " ", "(", "i", " ", "+", " ", "1", "_", "i", "6", "4", ")", ";">>) :
             NextVisible(output, i + Len(<<"i", " ", "=", " ", "(", "i", " ", "+", " ", "1", "_", "i", "6", "4", ")", ";">>)) = "}"

\* What the code does: the '(' after `for` opens a grouped expression, and
\* `let` has no prefix parse function.
C4_ParenthesizedForRejected ==
    /\ drawn = SrcForParenthesized
    /\ Finished
    /\ result.kind = "Err"
    /\ result.errors[1] = Error("No prefix parse function", Tok("Let"))

\* ------------------------------------------------------------------------ C5

\* C5: each part of a for header is optional: with the initializer, the
\* condition and/or the increment absent, parse_program returns Ok with a For
\* node whose absent parts are None and whose present parts are the parsed
\* ones, and records no error ("for ;; { break }", "for ; i < 10 ; { ... }").
C5_ForHeaderPartsOptional ==
    /\ (drawn = SrcForMinimal /\ ParseReturned) =>
          result = Ok(<<For(None, None, None, Block(<<Break>>))>>)
    /\ (drawn = SrcForOnlyCondition /\ ParseReturned) =>
          result = Ok(<<For(None,
                            Some(BinaryOp(IdentifierExpr(<<"i">>), "Lt",
                                          IntegerExpr(<<"1", "0">>))),
                            None,
                            Block(<<Assignment(<<"i">>,
                                       BinaryOp(IdentifierExpr(<<"i">>), "Plus",
                                                IntegerExpr(<<"1">>)))>>))>>)
    /\ (drawn = SrcForOnlyIncrement /\ ParseReturned) =>
          result = Ok(<<For(None, None, Some(Call(<<"t", "i", "c", "k">>, <<>>)),
                            Block(<<Break>>))>>)

\* What the code does on an absent increment: `{` is parsed as the increment.
C5_AbsentIncrementRejected ==
    /\ drawn = SrcForMinimal
    /\ ParseReturned
    /\ result = Err(<<Error("No prefix parse function", Tok("LBrace"))>>)

\* ------------------------------------------------------------------------ C7

InitializerKinds == {"LetDecl", "Assignment", "ExprStatement"}

RECURSIVE InitializersAsClaimed(_)
InitializersAsClaimed(statement) ==
    LET All(block) ==
            \A i \in 1..Len(block.statements) : InitializersAsClaimed(block.statements[i])
    IN  CASE statement.k = "For" ->
               /\ statement.initializer # None =>
                     /\ statement.initializer[1].k \in InitializerKinds
                     /\ InitializersAsClaimed(statement.initializer[1])
               /\ All(statement.body_block)
          [] statement.k = "If" ->
               /\ All(statement.then_block)
               /\ \A i \in 1..Len(statement.else_if_blocks) :
                     All(statement.else_if_blocks[i][2])
               /\ statement.else_block # None => All(statement.else_block[1])
          [] statement.k \in {"While", "Loop"} -> All(statement.body_block)
          [] OTHER -> TRUE

\* C7: in every For node the parser builds, the initializer, when present, is
\* a LetDecl, an Assignment or an ExprStatement: never If, While, Loop, For,
\* Print, Break or Continue.
C7_ForInitializerKinds ==
    \A i \in 1..Len(statements) : InitializersAsClaimed(statements[i])

\* What the code does on "for break; ; x { }": Ok, with Break as initializer.
C7_BreakAsInitializer ==
    /\ drawn = SrcForBreakInitializer
    /\ result = Ok(<<For(Some(Break), None, Some(IdentifierExpr(<<"x">>)), Block(<<>>))>>)

\* ============================================== expressions as token streams
\*
\* The expression parser and the expression emitter on every expression of
\* at most MaxOps binary operators: the operands are the identifiers a, b, c,
\* ...; one of them may carry a unary operator or be a call, or two
\* neighbours may stand in parentheses.

OperandNames == <<"a", "b", "c", "d", "e">>

Decorations(n) ==
    {[kind |-> "plain", at |-> 0]}
    \cup {[kind |-> kd, at |-> i] : kd \in {"neg", "not", "call"}, i \in 1..(n + 1)}
    \cup {[kind |-> kd, at |-> i] : kd \in {"group", "neggroup"}, i \in 1..n}

OperandTokens(i, d) ==
    LET base == <<IdentifierTok(<<OperandNames[i]>>)>>
    IN  CASE d.at = i /\ d.kind = "neg" -> <<Tok("Minus")>> \o base
          [] d.at = i /\ d.kind = "not" -> <<Tok("Bang")>> \o base
          [] d.at = i /\ d.kind = "call" ->
               base \o <<Tok("LParen"), IdentifierTok(<<"z">>), Tok("RParen")>>
          [] d.at = i /\ d.kind = "group" -> <<Tok("LParen")>> \o base
          [] d.at = i /\ d.kind = "neggroup" -> <<Tok("Minus"), Tok("LParen")>> \o base
          [] d.at + 1 = i /\ d.kind \in {"group", "neggroup"} -> base \o <<Tok("RParen")>>
          [] OTHER -> base

RECURSIVE RenderExpression(_, _, _)
RenderExpression(ops, d, i) ==
    OperandTokens(i, d)
    \o (IF i > Len(ops) THEN <<>> ELSE <<Tok(ops[i])>> \o RenderExpression(ops, d, i + 1))

\* (1 + 2) * 3 - 4 / 2 % 3
ExampleExpression ==
    <<Tok("LParen"), IntegerTok(<<"1">>), Tok("Plus"), IntegerTok(<<"2">>), Tok("RParen"),
      Tok("Multiply"), IntegerTok(<<"3">>), Tok("Minus"), IntegerTok(<<"4">>),
      Tok("Divide"), IntegerTok(<<"2">>), Tok("Modulo"), IntegerTok(<<"3">>)>>

\* Parser::new on the token stream of an expression
StartExpr(e) == Start(e, LexerNew(<<>>), e \o <<EofTok>>, "parse")

InitExpr ==
    \/ StartExpr(ExampleExpression)
    \/ \E n \in 1..MaxOps :
          \E ops \in [1..n -> InfixTypes], d \in Decorations(n) :
             StartExpr(RenderExpression(ops, d, 1))

NextParse ==
    \/ ParseStatement
    \/ ParseReturn
    \/ GenerateOpen
    \/ GenerateStatement
    \/ GenerateClose

SpecExpr == InitExpr /\ [][NextParse]_vars

\* ------------------------------------------------------------------------ C2

\* The order the claim gives: OR < AND < EQUALS < LESSGREATER < SUM < PRODUCT.
ClaimedLevel(type) ==
    CASE type = "Or" -> 1
      [] type = "And" -> 2
      [] type \in {"Eq", "NotEq"} -> 3
      [] type \in {"Lt", "Lte", "Gt", "Gte"} -> 4
      [] type \in {"Plus", "Minus"} -> 5
      [] type \in {"Multiply", "Divide", "Modulo"} -> 6

\* How many parentheses are open in front of the i-th token.
Depth(ts, i) ==
    Cardinality({j \in 1..(i - 1) : ts[j].type = "LParen"})
    - Cardinality({j \in 1..(i - 1) : ts[j].type = "RParen"})

\* The binary operators of ts outside every parenthesis: an operator token
\* that follows the end of an operand.
OuterOperators(ts) ==
    {i \in 2..(Len(ts) - 1) :
        /\ ts[i].type \in InfixTypes
        /\ Depth(ts, i) = 0
        /\ ts[i - 1].type \in {"Identifier", "Integer", "RParen"}}

\* The tree the claim dictates for a well-formed expression: split at the
\* loosest outer operator, the rightmost one among equals (left
\* association); without an outer operator a unary operator applies to all
\* that follows, a pair of parentheses stands for what it holds, and a name
\* followed by parentheses is a call.
RECURSIVE ClaimedTree(_)
ClaimedTree(ts) ==
    LET outer == OuterOperators(ts)
    IN  IF outer # {}
        THEN LET at == CHOOSE i \in outer :
                          \A j \in outer :
                             \/ ClaimedLevel(ts[i].type) < ClaimedLevel(ts[j].type)
                             \/ ClaimedLevel(ts[i].type) = ClaimedLevel(ts[j].type) /\ j <= i
             IN  BinaryOp(ClaimedTree(SubSeq(ts, 1, at - 1)), ts[at].type,
                          ClaimedTree(SubSeq(ts, at + 1, Len(ts))))
        ELSE IF ts[1].type = "Minus" THEN UnaryOp("Negate", ClaimedTree(Tail(ts)))
        ELSE IF ts[1].type = "Bang" THEN UnaryOp("Not", ClaimedTree(Tail(ts)))
        ELSE IF ts[1].type = "LParen" THEN ClaimedTree(SubSeq(ts, 2, Len(ts) - 1))
        ELSE IF Len(ts) > 1
        THEN Call(ts[1].name, <<ClaimedTree(SubSeq(ts, 3, Len(ts) - 1))>>)
        ELSE IF ts[1].type = "Integer" THEN IntegerExpr(ts[1].val)
        ELSE IdentifierExpr(ts[1].name)

ExampleTree ==
    BinaryOp(BinaryOp(BinaryOp(IntegerExpr(<<"1">>), "Plus", IntegerExpr(<<"2">>)),
                      "Multiply", IntegerExpr(<<"3">>)),
             "Minus",
             BinaryOp(BinaryOp(IntegerExpr(<<"4">>), "Divide", IntegerExpr(<<"2">>)),
                      "Modulo", IntegerExpr(<<"3">>)))

RECURSIVE Lines(_)
Lines(text) ==
    IF text = <<>> THEN <<>>
    ELSE LET ends == {i \in 1..Len(text) : text[i] = "\n"}
             n == IF ends = {} THEN Len(text) + 1
                  ELSE CHOOSE i \in ends : \A j \in ends : i <= j
         IN  <<SubSeq(text, 1, n - 1)>> \o Lines(SubSeq(text, n + 1, Len(text)))

Count(text, c) == Cardinality({i \in 1..Len(text) : text[i] = c})

\* The expression of the one statement line of the output: the second line,
\* without its indentation and its ';'.
EmittedExpression ==
    LET line == trim_start(Lines(output)[2]) IN SubSeq(line, 1, Len(line) - 1)

\* How many parentheses are open in front of the i-th character.
TextDepth(text, i) ==
    Count(SubSeq(text, 1, i - 1), "(") - Count(SubSeq(text, 1, i - 1), ")")

StartsAt(text, i, sub) ==
    i + Len(sub) - 1 <= Len(text) /\ SubSeq(text, i, i + Len(sub) - 1) = sub

Spaced(op) == <<" ">> \o OperatorText(op) \o <<" ">>

\* Where an operator stands between spaces outside every parenthesis of text.
OuterSplits(text) ==
    {s \in (1..Len(text)) \X InfixTypes :
        TextDepth(text, s[1]) = 0 /\ StartsAt(text, s[1], Spaced(s[2]))}

Unreadable == [k |-> "Unreadable"]

NameCharacter(c) == c \in Alphabetic \/ c \in Digit \/ c = "_"

IntegerSuffix == <<"_", "i", "6", "4">>

RECURSIVE ReadByParentheses(_)
RECURSIVE ReadArguments(_)

\* The arguments of a call: the texts between the ", " outside parentheses.
ReadArguments(text) ==
    IF text = <<>> THEN <<>>
    ELSE LET commas == {i \in 1..Len(text) : text[i] = "," /\ TextDepth(text, i) = 0}
         IN  IF commas = {} THEN <<ReadByParentheses(text)>>
             ELSE LET n == CHOOSE i \in commas : \A j \in commas : i <= j
                  IN  <<ReadByParentheses(SubSeq(text, 1, n - 1))>>
                      \o ReadArguments(SubSeq(text, n + 2, Len(text)))

\* The tree a reader gets from an emitted expression who knows the spelling
\* of the operators and follows the parentheses only: inside a pair of
\* parentheses there is one operator at depth 0 between two operands, or a
\* unary operator in front of one operand.
ReadByParentheses(text) ==
    IF text = <<>> THEN Unreadable
    ELSE IF text[1] = "("
    THEN LET inner == SubSeq(text, 2, Len(text) - 1)
             splits == OuterSplits(inner)
         IN  IF text[Len(text)] # ")"
                \/ \E i \in 2..Len(text) : TextDepth(text, i) = 0
             THEN Unreadable
             ELSE IF Cardinality(splits) = 1
             THEN LET s == CHOOSE x \in splits : TRUE
                  IN  BinaryOp(ReadByParentheses(SubSeq(inner, 1, s[1] - 1)), s[2],
                               ReadByParentheses(SubSeq(inner, s[1] + Len(Spaced(s[2])),
                                                        Len(inner))))
             ELSE IF splits = {} /\ inner # <<>> /\ inner[1] = "-"
             THEN UnaryOp("Negate", ReadByParentheses(Tail(inner)))
             ELSE IF splits = {} /\ inner # <<>> /\ inner[1] = "!"
             THEN UnaryOp("Not", ReadByParentheses(Tail(inner)))
             ELSE Unreadable
    ELSE IF Len(text) > Len(IntegerSuffix)
            /\ SubSeq(text, Len(text) - Len(IntegerSuffix) + 1, Len(text)) = IntegerSuffix
            /\ \A i \in 1..(Len(text) - Len(IntegerSuffix)) : text[i] \in Digit
    THEN IntegerExpr(SubSeq(text, 1, Len(text) - Len(IntegerSuffix)))
    ELSE IF \A i \in 1..Len(text) : NameCharacter(text[i])
    THEN IdentifierExpr(text)
    ELSE IF text[Len(text)] = ")" /\ Count(text, "(") > 0
    THEN LET open == CHOOSE i \in 1..Len(text) :
                        text[i] = "(" /\ \A j \in 1..(i - 1) : text[j] # "("
         IN  IF open > 1 /\ \A j \in 1..(open - 1) : NameCharacter(text[j])
             THEN Call(SubSeq(text, 1, open - 1),
                       ReadArguments(SubSeq(text, open + 1, Len(text) - 1)))
             ELSE Unreadable
    ELSE Unreadable

\* The nodes of an expression tree whose kind is in kinds.
RECURSIVE NodesOfKind(_, _)
RECURSIVE NodesOfKindIn(_, _, _)
NodesOfKindIn(args, i, kinds) ==
    IF i > Len(args) THEN 0
    ELSE NodesOfKind(args[i], kinds) + NodesOfKindIn(args, i + 1, kinds)

NodesOfKind(e, kinds) ==
    (IF e.k \in kinds THEN 1 ELSE 0)
    + CASE e.k = "BinaryOp" -> NodesOfKind(e.left, kinds) + NodesOfKind(e.right, kinds)
        [] e.k = "UnaryOp" -> NodesOfKind(e.expr, kinds)
        [] e.k = "Call" -> NodesOfKindIn(e.args, 1, kinds)
        [] OTHER -> 0

Id(c) == IdentifierTok(<<c>>)

\* The statements, as tokens, without the ';'.
SimpleStatements ==
    {<<Tok("Let"), Id("a"), Tok("Assign"), Id("b")>>,
     <<Id("x"), Tok("Assign"), Id("a"), Tok("Plus"), IntegerTok(<<"1">>)>>,
     <<Tok("LParen"), Id("c"), Tok("RParen")>>,
     <<Tok("Minus"), Id("c")>>,
     <<Tok("Print"), Tok("LParen"), StringTok(<<"{">>), Tok("RParen")>>,
     <<Tok("Println"), Tok("LParen"), StringTok(<<"}">>), Tok("RParen")>>,
     <<Tok("Break")>>,
     <<Tok("Continue")>>}

Items == [tokens : SimpleStatements, semicolon : BOOLEAN]

Wraps == {"none", "loop", "while", "if", "for"}

WrapOpen(wrap) ==
    CASE wrap = "none" -> <<>>
      [] wrap = "loop" -> <<Tok("Loop"), Tok("LBrace")>>
      [] wrap = "while" -> <<Tok("While"), Id("w"), Tok("LBrace")>>
      [] wrap = "if" -> <<Tok("If"), Id("w"), Tok("LBrace")>>
      [] wrap = "for" ->
           <<Tok("For"), Tok("Semicolon"), Tok("Semicolon"), Id("w"), Tok("LBrace")>>

WrapClose(wrap) ==
    CASE wrap = "none" -> <<>>
      [] wrap = "if" -> <<Tok("RBrace"), Tok("Else"), Tok("LBrace"), Tok("RBrace")>>
      [] OTHER -> <<Tok("RBrace")>>

RECURSIVE RenderItems(_)
RenderItems(items) ==
    IF items = <<>> THEN <<>>
    ELSE Head(items).tokens
         \o (IF Head(items).semicolon THEN <<Tok("Semicolon")>> ELSE <<>>)
         \o RenderItems(Tail(items))

RenderProgram(d) == WrapOpen(d.wrap) \o RenderItems(d.items) \o WrapClose(d.wrap) \o <<EofTok>>

\* Parser::new on the token stream of a program
InitStmt ==
    \E wrap \in Wraps, n \in 1..MaxStmts :
       \E items \in [1..n -> Items] :
          LET d == [wrap |-> wrap, items |-> items]
          IN  Start(d, LexerNew(<<>>), RenderProgram(d), "parse")

SpecStmt == InitStmt /\ [][NextParse]_vars

\* ------------------------------------------------------------------------ C6

\* Result<Program, Vec<String>> of parse_program
ResultOf(r) == IF r.ok THEN Ok(r.program) ELSE Err(r.errors)

\* The same program with every optional ';' written.
WithSemicolons(d) ==
    [d EXCEPT !.items = [i \in 1..Len(d.items) |-> [d.items[i] EXCEPT !.semicolon = TRUE]]]

\* The token that follows the i-th statement of the program as written, when
\* that statement has no ';'.
Follower(d, i) ==
    IF i < Len(d.items) THEN d.items[i + 1].tokens[1]
    ELSE (WrapClose(d.wrap) \o <<EofTok>>)[1]

\* A statement that ends in an expression: let/mut, assignment, expression.
EndsInExpression(item) == item.tokens[1].type \notin {"Print", "Println", "Break", "Continue"}

\* No statement that ends in an expression and is written without ';' is
\* followed by a token that continues an expression: '(' or a binary operator.
NoContinuation(d) ==
    \A i \in 1..Len(d.items) :
       (EndsInExpression(d.items[i]) /\ ~d.items[i].semicolon) =>
          Follower(d, i).type \notin InfixTypes \cup {"LParen"}

\* C6, as stated: parse_program returns the identical AST whether each
\* statement with an optional ';' is written with it or without it, also when
\* further statements follow it in the program or block.
C6_SemicolonTolerance ==
    ParseReturned => result = ResultOf(parse_program(RenderProgram(WithSemicolons(drawn))))

\* C6, amended: parse_program returns the identical AST whether each statement
\* with an optional ';' is written with it or without it, provided that no
\* let/mut declaration, assignment or expression statement written without
\* its ';' is followed by '(' or by a token that is also a binary operator
\* (such as '-'), which parse_expression takes as the continuation of the
\* statement's expression.
C6_SemicolonToleranceUnlessContinued ==
    (ParseReturned /\ NoContinuation(drawn)) =>
       result = ResultOf(parse_program(RenderProgram(WithSemicolons(drawn))))

\* A declaration written without its ';' and followed by another statement
\* has been parsed, in a block, into the two statements.
C6_UnterminatedThenStatement ==
    /\ ParseReturned
    /\ drawn.wrap = "loop"
    /\ Len(drawn.items) = 2
    /\ drawn.items[1] = [tokens |-> <<Tok("Let"), Id("a"), Tok("Assign"), Id("b")>>,
                         semicolon |-> FALSE]
    /\ drawn.items[2].tokens = <<Tok("Break")>>
    /\ result = Ok(<<Loop(Block(<<LetDecl(<<"a">>, None, FALSE, IdentifierExpr(<<"b">>)),
                                    Break>>))>>)

\* ------------------------------------------------------------------------ C8

RECURSIVE LiteralCharacters(_, _)
RECURSIVE LiteralCharactersIn(_, _, _)

\* How often the character c stands in the string literals of the
\* expressions and statements nodes[i..].
LiteralCharactersIn(nodes, i, c) ==
    IF i > Len(nodes) THEN 0
    ELSE LiteralCharacters(nodes[i], c) + LiteralCharactersIn(nodes, i + 1, c)

\* How often the character c stands in the string literals of a node.
LiteralCharacters(node, c) ==
    CASE node.k = "StringLiteral" -> Count(node.s, c)
      [] node.k = "BinaryOp" ->
           LiteralCharacters(node.left, c) + LiteralCharacters(node.right, c)
      [] node.k = "UnaryOp" -> LiteralCharacters(node.expr, c)
      [] node.k = "Call" -> LiteralCharactersIn(node.args, 1, c)
      [] node.k \in {"LetDecl", "Assignment"} -> LiteralCharacters(node.value_expr, c)
      [] node.k \in {"ExprStatement", "Print"} -> LiteralCharacters(node.expr, c)
      [] node.k = "If" ->
           LiteralCharacters(node.condition, c)
           + LiteralCharactersIn(node.then_block.statements, 1, c)
           + LiteralCharactersIn([i \in 1..Len(node.else_if_blocks) |->
                                     If(node.else_if_blocks[i][1], node.else_if_blocks[i][2],
                                        <<>>, None)], 1, c)
           + (IF node.else_block = None THEN 0
              ELSE LiteralCharactersIn(node.else_block[1].statements, 1, c))
      [] node.k = "While" ->
           LiteralCharacters(node.condition, c)
           + LiteralCharactersIn(node.body_block.statements, 1, c)
      [] node.k = "Loop" -> LiteralCharactersIn(node.body_block.statements, 1, c)
      [] node.k = "For" ->
           LiteralCharactersIn(node.initializer, 1, c)
           + LiteralCharactersIn(node.condition, 1, c)
           + LiteralCharactersIn(node.increment, 1, c)
           + LiteralCharactersIn(node.body_block.statements, 1, c)
      [] OTHER -> 0

\* C8, as stated: for every Program of a successful parse_program the text
\* generate returns holds as many '{' as '}', counted over the whole output,
\* string literals and print format string included.
C8_BraceBalance ==
    (Finished /\ result.kind = "Ok") => Count(output, "{") = Count(output, "}")

\* C8, amended: for every Program of a successful parse_program the text
\* generate returns holds as many '{' as '}' apart from the braces inside the
\* program's own string literals: counted over the whole output, the surplus
\* of '{' over '}' is their surplus inside the string literals of the Program.
C8_BraceBalanceApartFromLiterals ==
    (Finished /\ result.kind = "Ok") =>
       Count(output, "{") - Count(output, "}")
          = LiteralCharactersIn(result.program, 1, "{")
            - LiteralCharactersIn(result.program, 1, "}")

\* A block holding print("{") has been emitted.
C8_BraceLiteralInBlock ==
    /\ Finished
    /\ result.kind = "Ok"
    /\ drawn.wrap = "while"
    /\ result.program[1].body_block.statements
          = <<PrintStmt(StringLiteral(<<"{">>), FALSE)>>
    /\ Count(output, "{") = Count(output, "}") + 1

\* ========================================================= programs as ASTs
\*
\* The emitter on every For node with or without each part of its header and
\* with a body of at most MaxBody statements, as a statement of the program
\* or of a loop body.

ForInitializers ==
    {None,
     Some(LetDecl(<<"i">>, None, FALSE, IntegerExpr(<<"0">>))),
     Some(Assignment(<<"i">>, IntegerExpr(<<"0">>)))}

ForConditions ==
    {None,
     Some(BinaryOp(IdentifierExpr(<<"i">>), "Lt", IntegerExpr(<<"3">>))),
     Some(IdentifierExpr(<<"g", "o">>))}

ForIncrements ==
    {None,
     Some(Call(<<"s", "t", "e", "p">>, <<IdentifierExpr(<<"i">>)>>)),
     Some(IdentifierExpr(<<"i">>))}

BodyStatements ==
    {PrintStmt(IdentifierExpr(<<"i">>), TRUE),
     Break,
     Loop(Block(<<Continue>>))}

ForBodies == UNION {[1..n -> BodyStatements] : n \in 0..MaxBody}

\* generate on a Program that holds a For
InitGen ==
    \E init \in ForInitializers, cond \in ForConditions, inc \in ForIncrements,
       body \in ForBodies, nested \in BOOLEAN :
       LET f == For(init, cond, inc, Block(body))
       IN  /\ drawn = [for |-> f, nested |-> nested]
           /\ lexer = LexerNew(<<>>)
           /\ tokens = <<>>
           /\ phase = "generate"
           /\ cursor = 1
           /\ statements = <<>>
           /\ errors = <<>>
           /\ result = Ok(IF nested THEN <<Loop(Block(<<f>>))>> ELSE <<f>>)
           /\ output = <<>>
           /\ gen_index = 0
           /\ driver = Running("translate", <<>>)

NextGen ==
    \/ GenerateOpen
    \/ GenerateStatement
    \/ GenerateClose

SpecGen == InitGen /\ [][NextGen]_vars

\* ----------------------------------------------------------------------- C10

Unindented(lines) == [i \in 1..Len(lines) |-> trim_start(lines[i])]

RECURSIVE StatementLines(_, _)
\* The lines of the statements stmts[i..], as generate_statement emits them.
StatementLines(stmts, i) ==
    IF i > Len(stmts) THEN <<>>
    ELSE Unindented(Lines(generate_statement(stmts[i], 0))) \o StatementLines(stmts, i + 1)

\* The lines of the output that the For node gave, without their indentation:
\* all but "fn main() {" and "}", and "loop {" and "}" around a nested one.
ForLines ==
    LET skip == IF drawn.nested THEN 2 ELSE 1
    IN  Unindented(SubSeq(Lines(output), skip + 1, Len(Lines(output)) - skip))

\* C10: for a For node generate_statement emits, in this order, the
\* initializer (if any) as a statement of its own before the loop, then
\* "while COND {" with the emitted condition, or "while true {" without one,
\* then the statements of the body in their order, then the increment (if
\* any) as the last statement of the while body, then the closing '}'.
C10_ForEmissionOrder ==
    Finished =>
       ForLines
          = StatementLines(drawn.for.initializer, 1)
            \o <<<<"w", "h", "i", "l", "e", " ">>
                 \o (IF drawn.for.condition = None THEN <<"t", "r", "u", "e">>
                     ELSE generate_expression(drawn.for.condition[1]))
                 \o <<" ", "{">>>>
            \o StatementLines(drawn.for.body_block.statements, 1)
            \o (IF drawn.for.increment = None THEN <<>>
                ELSE <<generate_expression(drawn.for.increment[1]) \o <<";">>>>)
            \o <<<<"}">>>>

\* A For with its three parts and two body statements has been emitted.
C10_CompleteForEmitted ==
    /\ Finished
    /\ ~drawn.nested
    /\ ForLines = <<<<"l", "e", "t", " ", "i", " ", "=", " ", "0", "_", "i", "6", "4", ";">>, <<"w", "h", "i", "l", "e", " ", "(", "i", " ", "<", " ", "3", "_", "i", "6", "4", ")", " ", "{">>,
                    <<"p", "r", "i", "n", "t", "l", "n", "!", "(", "\"", "{", "}", "\"", ",", " ", "i", ")", ";">>, <<"b", "r", "e", "a", "k", ";">>, <<"s", "t", "e", "p", "(", "i", ")", ";">>, <<"}">>>>

\* ----------------------------------------------------------------------- C11

\* The nesting level of every line a statement gives, read from the AST: a
\* statement's own line and the closing '}' of its blocks are at its level,
\* the statements of its blocks and the increment of a for one level deeper.
RECURSIVE LineLevels(_, _)
RECURSIVE BlockLevels(_, _, _)
RECURSIVE ElseIfLevels(_, _, _)

BlockLevels(stmts, i, n) ==
    IF i > Len(stmts) THEN <<>>
    ELSE LineLevels(stmts[i], n) \o BlockLevels(stmts, i + 1, n)

ElseIfLevels(arms, i, n) ==
    IF i > Len(arms) THEN <<>>
    ELSE <<n>> \o BlockLevels(arms[i][2].statements, 1, n + 1) \o ElseIfLevels(arms, i + 1, n)

LineLevels(statement, n) ==
    CASE statement.k \in {"Loop", "While"} ->
           <<n>> \o BlockLevels(statement.body_block.statements, 1, n + 1) \o <<n>>
      [] statement.k = "If" ->
           <<n>> \o BlockLevels(statement.then_block.statements, 1, n + 1)
           \o ElseIfLevels(statement.else_if_blocks, 1, n)
           \o (IF statement.else_block = None THEN <<>>
               ELSE <<n>> \o BlockLevels(statement.else_block[1].statements, 1, n + 1))
           \o <<n>>
      [] statement.k = "For" ->
           BlockLevels(statement.initializer, 1, n)
           \o <<n>> \o BlockLevels(statement.body_block.statements, 1, n + 1)
           \o (IF statement.increment = None THEN <<>> ELSE <<n + 1>>)
           \o <<n>>
      [] OTHER -> <<n>>

\* The spaces a line begins with.
RECURSIVE LeadingSpaces(_)
LeadingSpaces(line) ==
    IF line # <<>> /\ Head(line) = " " THEN 1 + LeadingSpaces(Tail(line)) ELSE 0

\* The lines generate wrote between "fn main() {" and the last "}".
StatementLinesOfOutput ==
    LET ls == Lines(output) IN SubSeq(ls, 2, Len(ls) - 1)

\* C11: every statement line of the output of generate begins with exactly
\* 4*n spaces, n the statement's nesting level (1 at top level), the `while`
\* line of a for with an initializer and the initializer's line included, and
\* the closing '}' of a block is indented at the level of its introducer.
C11_Indentation ==
    Finished =>
       [i \in 1..Len(StatementLinesOfOutput) |-> LeadingSpaces(StatementLinesOfOutput[i])]
          = [i \in 1..Len(BlockLevels(result.program, 1, 1)) |->
                IndentWidth * BlockLevels(result.program, 1, 1)[i]]

\* What the code does after an initializer: the `while` line starts at column 0.
C11_WhileLineUnindented ==
    /\ Finished
    /\ ~drawn.nested
    /\ drawn.for.initializer # None
    /\ Lines(output)[2] = <<" ", " ", " ", " ", "l", "e", "t", " ", "i", " ", "=", " ", "0", "_", "i", "6", "4", ";">>
    /\ SubSeq(Lines(output)[3], 1, 6) = <<"w", "h", "i", "l", "e", " ">>

\* Without an initializer every line is indented as claimed.
C11_IndentationWithoutInitializer ==
    (Finished /\ drawn.for.initializer = None) => C11_Indentation

\* ==================================================== the lexer on any text
\*
\* The lexer on every text of at most MaxChars characters over LexChars: a
\* letter, a digit, the dot, the quote and the backslash, an operator
\* character with and without a two-character form, an illegal character,
\* the characters of comments, white space, and byte 0.

LexChars == {"a", "4", ".", "\"", "\\", "=", "&", "@", "/", "*", " ", "\n", NUL}

\* Lexer::tokenize: the loop, from the lexer l with toks collected; calls
\* are the tokens next_token returned on the way.
RECURSIVE TokenizeLoop(_, _, _)
TokenizeLoop(l, toks, calls) ==
    LET Step(r) ==
            IF r.tok = IllegalTok("\"")
            THEN [l |-> r.l, calls |-> Append(calls, r.tok),
                  result |-> [kind |-> "Err", message |-> "Unterminated string literal"]]
            ELSE IF r.tok = EofTok
            THEN [l |-> r.l, calls |-> Append(calls, r.tok),
                  result |-> [kind |-> "Ok", tokens |-> Append(toks, r.tok)]]
            ELSE TokenizeLoop(r.l, Append(toks, r.tok), Append(calls, r.tok))
    IN  Step(next_token(l))

tokenize(l) == TokenizeLoop(l, <<>>, <<>>)

InitLex ==
    \E n \in 0..MaxChars :
       \E src \in [1..n -> LexChars] : Start(src, LexerNew(src), <<>>, "lex")

\* Lexer::tokenize on a new Lexer
Tokenize ==
    /\ phase = "lex"
    /\ tokens = <<>>
    /\ result = NoResult
    /\ LET r == tokenize(lexer)
       IN  /\ lexer' = r.l
           /\ tokens' = r.calls
           /\ result' = r.result
    /\ UNCHANGED <<drawn, phase, cursor, statements, errors, output, gen_index, driver>>

NextLex ==
    \/ LexNextToken
    \/ Tokenize

SpecLex == InitLex /\ [][NextLex]_vars

\* The caller keeps calling next_token: the same lexer, on every text of at
\* most MaxFairChars characters over FairChars.
FairChars == {"a", "4", "\"", "=", "@", "/", "*", " ", NUL}

InitLexFair ==
    \E n \in 0..MaxFairChars :
       \E src \in [1..n -> FairChars] : Start(src, LexerNew(src), <<>>, "lex")

SpecLexFair == InitLexFair /\ [][NextLex]_vars /\ WF_vars(LexNextToken)

\* ----------------------------------------------------------------------- C12

\* A call has returned a token that is not Eof.
ReturnedToken ==
    /\ Len(tokens') > Len(tokens)
    /\ tokens'[Len(tokens')] # EofTok

\* C12: on every input, repeated calls of next_token return finitely many
\* tokens that are not Eof (at most one per byte) and then Eof; every later
\* call returns Eof again; every call that returns a token other than Eof
\* moves the byte cursor forward.
C12_TokenizationTotality ==
    /\ <>LexedAll
    /\ [](Len(BeforeEof(tokens)) <= Len(drawn))
    /\ [](\A i \in 1..(Len(tokens) - 1) : tokens[i] = EofTok => tokens[i + 1] = EofTok)
    /\ [][ReturnedToken => lexer'.position > lexer.position]_vars

\* Tokens, then Eof, then Eof again.
C12_EofReturnedTwice ==
    /\ drawn = <<"a", "@">>
    /\ tokens = <<IdentifierTok(<<"a">>), IllegalTok("@"), EofTok, EofTok>>

\* ------------------------------------------------ the parser on any tokens

\* Token streams are drawn as sequences of pieces: single tokens, and the
\* openings of the block statements.
LoopOpening == <<Tok("Loop"), Tok("LBrace")>>

IfOpening == <<Tok("If"), IdentifierTok(<<"x">>), Tok("LBrace")>>

ForOpening ==
    <<Tok("For"), Tok("Semicolon"), Tok("Semicolon"), IdentifierTok(<<"x">>), Tok("LBrace")>>

ForOpeningNoIncrement == <<Tok("For"), Tok("Semicolon"), Tok("Semicolon"), Tok("LBrace")>>

ParsePieces ==
    {<<Tok("Let")>>, <<IdentifierTok(<<"x">>)>>, <<Tok("Assign")>>, <<IntegerTok(<<"1">>)>>,
     <<Tok("Semicolon")>>, <<Tok("RBrace")>>, <<Tok("Else")>>,
     <<Tok("LParen")>>, <<Tok("Break")>>,
     <<Tok("LBrace")>>, <<Tok("For")>>,
     LoopOpening, IfOpening, ForOpening, ForOpeningNoIncrement}

RECURSIVE Flatten(_)
Flatten(pieces) ==
    IF pieces = <<>> THEN <<>> ELSE Head(pieces) \o Flatten(Tail(pieces))

\* Parser::new on any token stream, ended by the lexer's Eof
InitTokens ==
    \E n \in 0..MaxPieces :
       \E ps \in [1..n -> ParsePieces] : StartExpr(Flatten(ps))

SpecTokens == InitTokens /\ [][NextParse]_vars

\* parse_program runs its loop until it returns and generate runs to its end:
\* weak fairness of NextParse, WF_vars(NextParse), with ENABLED <<NextParse>>_vars
\* written out, since a step is possible in every phase but the last.
SpecTokensFair == SpecTokens /\ ([]<>(phase = "done") \/ []<><<NextParse>>_vars)

\* ---------------------------------------------------------------- claim C13

\* The parser positions at which the block loop takes a turn: the current
\* token is neither RBrace nor Eof.
BlockTurnPositions ==
    {p \in 1..Len(tokens) : TokenAt(tokens, p).type \notin {"RBrace", "Eof"}}

\* The cursor after one turn of the block loop taken at position p:
\* parse_statement, then next_token (parser.rs:297-312).
AfterBlockTurn(p) == Advance(parse_statement(tokens, [p |-> p, errs |-> <<>>]).st).p

\* C13: parse_program terminates on every token stream, well-formed or not:
\* it returns; every turn of its top-level loop leaves the cursor strictly
\* further right, on a failed statement as on a parsed one; so does every turn
\* the block loop can take; and the loop turns only while the current token is
\* not Eof.
C13_ParseProgramTerminates ==
    /\ <>(result # NoResult)
    /\ [][(phase = "parse" /\ phase' = "parse") => cursor' > cursor]_vars
    /\ [](\A p \in BlockTurnPositions : AfterBlockTurn(p) > p)
    /\ [][cursor' # cursor => TokenAt(tokens, cursor) # EofTok]_vars

\* `let let`: the first statement fails, the parser moves on to the second
\* `let` and records a second error.
C13_SecondErrorRecorded ==
    /\ tokens = <<Tok("Let"), Tok("Let"), EofTok>>
    /\ Len(errors) = 2
    /\ result = Err(errors)

\* ---------------------------------------------------------------- claim C14

\* errors is only ever appended to.
ErrorsAppended ==
    /\ Len(errors') >= Len(errors)
    /\ \A i \in 1..Len(errors) : errors'[i] = errors[i]

\* A turn of the top-level loop that pushes no statement and whose current
\* token is not the ';' of an empty statement is a failed production.
FailedTurn ==
    /\ phase = "parse" /\ cursor' # cursor
    /\ statements' = statements
    /\ TokenAt(tokens, cursor) # Tok("Semicolon")

\* C14: parse_program returns Ok(Program) exactly when no error message was
\* recorded during the whole parse, and then the Program holds the statements
\* pushed; otherwise it returns Err with the non-empty list of all recorded
\* messages in the order they were recorded, and no Program; the messages
\* are never dropped or reordered while parsing, and every failed production
\* records one, so that no Program is returned when a production failed.
C14_OkExactlyWithoutErrors ==
    /\ [](ParseReturned =>
             /\ result.kind \in {"Ok", "Err"}
             /\ result.kind = "Ok" <=> errors = <<>>
             /\ result.kind = "Ok" => result.program = statements
             /\ result.kind = "Err" =>
                   /\ result.errors = errors
                   /\ errors # <<>>
                   /\ DOMAIN result = {"kind", "errors"})
    /\ [][ErrorsAppended]_vars
    /\ [][FailedTurn => Len(errors') > Len(errors)]_vars

\* `for ; ; { }`: the increment fails, the For node is still built and pushed,
\* and parse_program returns the two messages instead of the Program.
C14_BuiltForNotReturned ==
    /\ tokens = <<Tok("For"), Tok("Semicolon"), Tok("Semicolon"), Tok("LBrace"), Tok("RBrace"), EofTok>>
    /\ Len(statements) = 1 /\ statements[1].k = "For"
    /\ Len(errors) >= 1
    /\ result.kind = "Err" /\ result.errors = errors

\* --------------------------------------- source texts with illegal characters

\* A piece of source text, with the tokens it is made of.
Piece(text, toks) == [text |-> text, toks |-> toks]

SourcePieces ==
    {Piece(<<"@">>, <<IllegalTok("@")>>),
     Piece(<<"l", "e", "t", " ", "a", " ", "=", " ">>,
           <<Tok("Let"), IdentifierTok(<<"a">>), Tok("Assign")>>),
     Piece(<<"l", "e", "t", " ">>, <<Tok("Let")>>),
     Piece(<<"x", " ">>, <<IdentifierTok(<<"x">>)>>),
     Piece(<<"x", " ", "=", " ">>, <<IdentifierTok(<<"x">>), Tok("Assign")>>),
     Piece(<<"1", " ", "+", " ">>, <<IntegerTok(<<"1">>), Tok("Plus")>>),
     Piece(<<"1", " ">>, <<IntegerTok(<<"1">>)>>),
     Piece(<<";">>, <<Tok("Semicolon")>>),
     Piece(<<"l", "o", "o", "p", " ", "{", " ">>, <<Tok("Loop"), Tok("LBrace")>>),
     Piece(<<"}", "\n">>, <<Tok("RBrace")>>),
     Piece(<<"(", " ">>, <<Tok("LParen")>>),
     Piece(<<"f", "o", "r", " ">>, <<Tok("For")>>),
     Piece(<<"i", "f", " ">>, <<Tok("If")>>),
     Piece(<<"f", "(">>, <<IdentifierTok(<<"f">>), Tok("LParen")>>)}

RECURSIVE PiecesText(_)
PiecesText(ps) == IF ps = <<>> THEN <<>> ELSE Head(ps).text \o PiecesText(Tail(ps))

RECURSIVE PiecesTokens(_)
PiecesTokens(ps) == IF ps = <<>> THEN <<>> ELSE Head(ps).toks \o PiecesTokens(Tail(ps))

\* Lexer::new on a source text put together from pieces
InitPieces ==
    \E n \in 0..MaxSourcePieces :
       \E ps \in [1..n -> SourcePieces] :
          Start(ps, LexerNew(PiecesText(ps)), <<>>, "lex")

SpecPieces == InitPieces /\ [][Next]_vars

\* ---------------------------------------------------------------- claim C15

IllegalCount(ts) == Cardinality({i \in 1..Len(ts) : ts[i].type = "Illegal"})

IllegalReports(errs) ==
    Cardinality({i \in 1..Len(errs) :
                    errs[i] = Error("No prefix parse function", IllegalTok("@"))})

\* This call of next_token returns Illegal(c) for a character the lexer has
\* no rule for.
ReturnsIllegal ==
    /\ Len(tokens') = Len(tokens) + 1
    /\ tokens'[Len(tokens')].type = "Illegal"
    /\ tokens'[Len(tokens')].c # "\""

\* The call consumed white space and then exactly the one byte c.
ConsumedOneByte ==
    /\ lexer'.position >= lexer.position + 1
    /\ lexer'.input[lexer'.position] = tokens'[Len(tokens')].c
    /\ \A i \in (lexer.position + 1)..(lexer'.position - 1) : lexer.input[i] \in Whitespace
    /\ lexer'.read_position = lexer'.position + 1

\* C15: an illegal character is non-fatal to the lexer and fatal to the
\* parse: next_token returns Illegal(c) having consumed exactly that one byte,
\* and goes on to return the tokens of the rest of the text; and when the
\* token stream holds an Illegal token, parse_program returns Err, having
\* recorded one "No prefix parse function" error for every Illegal token and
\* moved past each of them.
C15_IllegalCharacter ==
    /\ [][ReturnsIllegal => ConsumedOneByte]_vars
    /\ [](LexedAll => BeforeEof(tokens) = PiecesTokens(drawn))
    /\ []((ParseReturned /\ IllegalCount(tokens) > 0) =>
             /\ result.kind = "Err"
             /\ IllegalReports(result.errors) = IllegalCount(tokens)
             /\ TokenAt(tokens, cursor) = EofTok)

\* lexer.rs test_illegal_char, `let a = @;`: five tokens, and one error.
C15_IllegalInDeclaration ==
    /\ BeforeEof(tokens) =
          <<Tok("Let"), IdentifierTok(<<"a">>), Tok("Assign"), IllegalTok("@"), Tok("Semicolon")>>
    /\ result.kind = "Err"
    /\ IllegalReports(result.errors) = 1

\* ---------------------------------------------------------------- claim C16

\* Where a text ends, read by the lexical grammar alone: in code, inside a
\* string literal, inside a `//` comment or inside a `/* */` comment.
RECURSIVE EndsIn(_, _, _)
EndsIn(text, i, mode) ==
    IF i > Len(text) THEN mode
    ELSE LET c == text[i]
             n == IF i < Len(text) THEN text[i + 1] ELSE "end"
         IN  CASE mode = "code" /\ c = "\"" -> EndsIn(text, i + 1, "string")
               [] mode = "code" /\ c = "/" /\ n = "/" -> EndsIn(text, i + 2, "line")
               [] mode = "code" /\ c = "/" /\ n = "*" -> EndsIn(text, i + 2, "block")
               [] mode = "string" /\ c = "\\" -> EndsIn(text, i + 2, "string")
               [] mode = "string" /\ c = "\"" -> EndsIn(text, i + 1, "code")
               [] mode = "line" /\ c = "\n" -> EndsIn(text, i + 1, "code")
               [] mode = "block" /\ c = "*" /\ n = "/" -> EndsIn(text, i + 2, "code")
               [] OTHER -> EndsIn(text, i + 1, mode)

\* The text ends before the closing quote of a string literal.
UnterminatedString(text) == EndsIn(text, 1, "code") = "string"

UnterminatedStringOutcome ==
    /\ [](\A i \in 1..(Len(tokens) - 1) :
             tokens[i] = IllegalTok("\"") => tokens[i + 1] = EofTok)
    /\ []((LexedAll /\ UnterminatedString(drawn)) =>
             \E i \in 1..Len(tokens) : tokens[i] = IllegalTok("\""))
    /\ []((result # NoResult /\ UnterminatedString(drawn)) =>
             result = [kind |-> "Err", message |-> "Unterminated string literal"])
    /\ []((result # NoResult /\ ~UnterminatedString(drawn)) =>
             /\ result.kind = "Ok"
             /\ result.tokens[Len(result.tokens)] = EofTok
             /\ EofCalls(result.tokens) = 1)

\* C16: when the input ends before a string literal's closing quote,
\* next_token returns Illegal('"') and the next call returns Eof, and
\* tokenize returns Err("Unterminated string literal") with no token list; on
\* every input without an unterminated string tokenize returns Ok with a
\* token list that ends in Eof and holds Eof exactly once.
C16_UnterminatedString == UnterminatedStringOutcome

\* The same for the texts that hold no byte 0.
C16_UnterminatedStringWithoutNul ==
    (\E i \in 1..Len(drawn) : drawn[i] = NUL) \/ UnterminatedStringOutcome

\* `"`, the byte 0, `a`: the call after Illegal('"') returns Identifier("a").
C16_LexedPastNul ==
    /\ drawn = <<"\"", NUL, "a">>
    /\ tokens = <<IllegalTok("\""), IdentifierTok(<<"a">>), EofTok>>

\* ------------------------------------------------- source texts with comments

CommentChars == {"a", "1", " ", "\n", "/", "*", ";", "\"", NUL}

\* lexer.rs test_unterminated_multiline_comment_at_eof, in the words of the
\* specification's example
SrcUnterminatedComment ==
    <<"/", "*", " ", "u", "n", "t", "e", "r", "m", "i", "n", "a", "t", "e", "d">>

\* Lexer::new on a source text
InitComment ==
    \/ Start(SrcUnterminatedComment, LexerNew(SrcUnterminatedComment), <<>>, "lex")
    \/ \E n \in 0..MaxCommentChars :
          \E src \in [1..n -> CommentChars] : Start(src, LexerNew(src), <<>>, "lex")

SpecComment == InitComment /\ [][Next]_vars

\* Iterator::next of the Lexer, called until it returns None: the tokens
\* before Eof.
RECURSIVE Drain(_)
Drain(l) ==
    LET Step(r) == IF r.tok = EofTok THEN <<>> ELSE <<r.tok>> \o Drain(r.l)
    IN  Step(next_token(l))

\* ---------------------------------------------------------------- claim C17

\* The index of the `/` that opens the comment at whose inside the text ends,
\* or 0 when the text does not end inside a `/* */` comment.
RECURSIVE OpenCommentStart(_, _, _, _)
OpenCommentStart(text, i, mode, start) ==
    IF i > Len(text) THEN (IF mode = "block" THEN start ELSE 0)
    ELSE LET c == text[i]
             n == IF i < Len(text) THEN text[i + 1] ELSE "end"
         IN  CASE mode = "code" /\ c = "\"" -> OpenCommentStart(text, i + 1, "string", 0)
               [] mode = "code" /\ c = "/" /\ n = "/" -> OpenCommentStart(text, i + 2, "line", 0)
               [] mode = "code" /\ c = "/" /\ n = "*" -> OpenCommentStart(text, i + 2, "block", i)
               [] mode = "string" /\ c = "\\" -> OpenCommentStart(text, i + 2, "string", 0)
               [] mode = "string" /\ c = "\"" -> OpenCommentStart(text, i + 1, "code", 0)
               [] mode = "line" /\ c = "\n" -> OpenCommentStart(text, i + 1, "code", 0)
               [] mode = "block" /\ c = "*" /\ n = "/" -> OpenCommentStart(text, i + 2, "code", 0)
               [] OTHER -> OpenCommentStart(text, i + 1, mode, start)

UnterminatedComment(text) == OpenCommentStart(text, 1, "code", 0) > 0

BeforeComment(text) == SubSeq(text, 1, OpenCommentStart(text, 1, "code", 0) - 1)

\* The lexer is at the end of its input: its current byte is 0, the cursor
\* past the last byte of the text or on a byte 0 of the text.
AtEndOfInput(l) ==
    /\ l.ch = NUL
    /\ l.position >= Len(l.input) \/ l.input[l.position + 1] = NUL

\* C17: an unterminated block comment is silently treated as end of input:
\* when `/*` is not followed by `*/` the lexer consumes to the end of the
\* input and next_token returns Eof, the tokens returned before it being
\* those of the text before the comment and no other; and for the input
\* `/* unterminated` parse_program returns Ok with an empty statement list.
C17_UnterminatedComment ==
    /\ (LexedAll /\ UnterminatedComment(drawn)) =>
          /\ AtEndOfInput(lexer)
          /\ (\A i \in 1..Len(drawn) : drawn[i] # NUL) => lexer.position >= Len(drawn)
          /\ BeforeEof(tokens) = Drain(LexerNew(BeforeComment(drawn)))
          /\ \A i \in 1..Len(tokens) : tokens[i] # IllegalTok("/")
    /\ (ParseReturned /\ drawn = SrcUnterminatedComment) => result = Ok(<<>>)

\* `/* unterminated`: the first call of next_token returns Eof with the
\* cursor at the end of the text, and parse_program returns the empty Program.
C17_EmptyProgram ==
    /\ drawn = SrcUnterminatedComment
    /\ tokens # <<>> /\ tokens[1] = EofTok
    /\ lexer.position >= Len(drawn)
    /\ result = Ok(<<>>)

\* ---------------------------------------------------------------- claim C18

\* Source texts are drawn as sequences of pieces: characters, and the marks
\* of the comments.
CommentPieces ==
    {<<"a">>, <<" ">>, <<"\n">>, <<"=">>, <<"\"">>, <<"/">>, <<"*">>,
     <<"/", "*">>, <<"*", "/">>, <<"/", "/">>}

\* Lexer::new on a source text
InitTransparency ==
    \E n \in 0..MaxCommentPieces :
       \E ps \in [1..n -> CommentPieces] :
          Start(Flatten(ps), LexerNew(Flatten(ps)), <<>>, "lex")

SpecTransparency == InitTransparency /\ [][NextLex]_vars

\* The index of the first newline of text at or after i, or Len(text) + 1.
RECURSIVE LineEnd(_, _)
LineEnd(text, i) ==
    IF i > Len(text) \/ text[i] = "\n" THEN i ELSE LineEnd(text, i + 1)

\* The index of the `*` of the first `*/` of text at or after i, or 0.
RECURSIVE BlockEnd(_, _)
BlockEnd(text, i) ==
    IF i >= Len(text) THEN 0
    ELSE IF text[i] = "*" /\ text[i + 1] = "/" THEN i
    ELSE BlockEnd(text, i + 1)

\* The text with each comment (each `// ...` up to the newline and each
\* `/* ... */`, read by the lexical grammar: not inside a string literal)
\* replaced by `with`.
RECURSIVE ReplaceComments(_, _, _, _)
ReplaceComments(text, i, mode, with) ==
    IF i > Len(text) THEN <<>>
    ELSE LET c == text[i]
             n == IF i < Len(text) THEN text[i + 1] ELSE "end"
         IN  CASE mode = "code" /\ c = "\"" ->
                    <<c>> \o ReplaceComments(text, i + 1, "string", with)
               [] mode = "code" /\ c = "/" /\ n = "/" ->
                    with \o ReplaceComments(text, LineEnd(text, i), "code", with)
               [] mode = "code" /\ c = "/" /\ n = "*" ->
                    IF BlockEnd(text, i + 2) = 0 THEN SubSeq(text, i, Len(text))
                    ELSE with \o ReplaceComments(text, BlockEnd(text, i + 2) + 2, "code", with)
               [] mode = "string" /\ c = "\\" ->
                    SubSeq(text, i, i + 1) \o ReplaceComments(text, i + 2, "string", with)
               [] mode = "string" /\ c = "\"" ->
                    <<c>> \o ReplaceComments(text, i + 1, "code", with)
               [] OTHER -> <<c>> \o ReplaceComments(text, i + 1, mode, with)

HasComment(text) == ReplaceComments(text, 1, "code", <<>>) # text

NumberChars == {"0", "4", ".", "a", " "}

\* Lexer::new on a source text with numbers
InitNumber ==
    \E n \in 0..MaxNumberChars :
       \E src \in [1..n -> NumberChars] : Start(src, LexerNew(src), <<>>, "lex")

SpecNumber == InitNumber /\ [][NextLex]_vars

\* The first index of text at or after i whose character is not in set, or
\* Len(text) + 1.
RECURSIVE FirstNotIn(_, _, _)
FirstNotIn(text, i, set) ==
    IF i > Len(text) \/ text[i] \notin set THEN i ELSE FirstNotIn(text, i + 1, set)

RECURSIVE DecimalValue(_)
DecimalValue(ds) ==
    IF ds = <<>> THEN 0 ELSE 10 * DecimalValue(SubSeq(ds, 1, Len(ds) - 1)) + DigitVal(ds[Len(ds)])

\* One call of next_token (not tokenize), and the token it returned.
NextTokenCalled == Len(tokens') = Len(tokens) + 1 /\ result' = result

Returned == tokens'[Len(tokens')]

\* Where the lexeme of this call begins, after the white space: an index of
\* the text, from 1.
LexemeStart == FirstNotIn(lexer.input, lexer.position + 1, Whitespace)

\* Where the digit run that begins there ends, and where the digit run after
\* a following '.' ends.
IntegerEnd == FirstNotIn(lexer.input, LexemeStart, Digit)

FractionEnd == FirstNotIn(lexer.input, IntegerEnd + 1, Digit)

OnDigit == LexemeStart <= Len(lexer.input) /\ lexer.input[LexemeStart] \in Digit

DotAndDigit ==
    /\ IntegerEnd + 1 <= Len(lexer.input)
    /\ lexer.input[IntegerEnd] = "."
    /\ lexer.input[IntegerEnd + 1] \in Digit

\* The cursor is on the byte at index i of the text (from 1), or at its end.
CursorAt(l, i) ==
    /\ l.position = i - 1
    /\ l.read_position = i
    /\ l.ch = IF i <= Len(l.input) THEN l.input[i] ELSE NUL

HeaderInitializers ==
    {<<>>,
     <<Tok("Let"), IdentifierTok(<<"i">>), Tok("Assign"), IntegerTok(<<"0">>)>>,
     <<IdentifierTok(<<"i">>), Tok("Assign"), IntegerTok(<<"0">>)>>,
     <<IdentifierTok(<<"x">>)>>,
     <<Tok("Break")>>}

HeaderConditions ==
    {<<>>,
     <<IdentifierTok(<<"x">>)>>,
     <<IdentifierTok(<<"i">>), Tok("Lt"), IntegerTok(<<"1", "0">>)>>,
     <<IdentifierTok(<<"i">>), Tok("Lt"), IntegerTok(<<"3">>)>>,
     <<Tok("Minus"), IdentifierTok(<<"x">>)>>,
     <<Tok("LParen"), IdentifierTok(<<"x">>), Tok("RParen")>>}

HeaderIncrements ==
    {<<IdentifierTok(<<"x">>)>>,
     <<IdentifierTok(<<"i">>), Tok("Plus"), IntegerTok(<<"1">>)>>,
     <<IdentifierTok(<<"f">>), Tok("LParen"), Tok("RParen")>>}

BodyTokens ==
    {<<>>, <<Tok("Semicolon")>>, <<IdentifierTok(<<"x">>)>>,
     <<IdentifierTok(<<"x">>), Tok("Semicolon")>>, <<Tok("Break")>>}

\* The tokens that follow the for statement.
Followers == {<<>>, <<Tok("Semicolon")>>, <<IdentifierTok(<<"x">>), Tok("Semicolon")>>}

\* Between 0 and n body statements, as tokens.
RECURSIVE Bodies(_)
Bodies(n) ==
    IF n = 0 THEN {<<>>}
    ELSE Bodies(n - 1) \cup {b \o t : b \in Bodies(n - 1), t \in BodyTokens}

\* The for statement d as tokens; each header ';' is written or left out.
RenderFor(d) ==
    <<Tok("For")>> \o d.initializer
       \o (IF d.first THEN <<Tok("Semicolon")>> ELSE <<>>)
       \o d.condition
       \o (IF d.second THEN <<Tok("Semicolon")>> ELSE <<>>)
       \o d.increment
       \o <<Tok("LBrace")>> \o d.body \o <<Tok("RBrace")>> \o d.follow

\* Parser::new on the tokens of a for statement
InitFor ==
    \E i \in HeaderInitializers, c \in HeaderConditions, inc \in HeaderIncrements,
       b \in Bodies(MaxBody), f \in Followers, s1 \in BOOLEAN, s2 \in BOOLEAN :
       LET d == [initializer |-> i, condition |-> c, increment |-> inc, body |-> b,
                 follow |-> f, first |-> s1, second |-> s2]
       IN  Start(d, LexerNew(<<>>), RenderFor(d) \o <<EofTok>>, "parse")

SpecFor == InitFor /\ [][NextParse]_vars

MaxArms == 2

\* A condition: its tokens, the expression it stands for and the Rust text of
\* that expression.
IfCondition(toks, ast, text) == [toks |-> toks, ast |-> ast, text |-> text]

GreaterTen ==
    IfCondition(<<IdentifierTok(<<"x">>), Tok("Gt"), IntegerTok(<<"1", "0">>)>>,
                BinaryOp(IdentifierExpr(<<"x">>), "Gt", IntegerExpr(<<"1", "0">>)),
                <<"(", "x", " ", ">", " ", "1", "0", "_", "i", "6", "4", ")">>)

LessFive ==
    IfCondition(<<IdentifierTok(<<"x">>), Tok("Lt"), IntegerTok(<<"5">>)>>,
                BinaryOp(IdentifierExpr(<<"x">>), "Lt", IntegerExpr(<<"5">>)),
                <<"(", "x", " ", "<", " ", "5", "_", "i", "6", "4", ")">>)

BareName == IfCondition(<<IdentifierTok(<<"x">>)>>, IdentifierExpr(<<"x">>), <<"x">>)

\* A condition written between parentheses: the same expression.
Parenthesized(c) ==
    IfCondition(<<Tok("LParen")>> \o c.toks \o <<Tok("RParen")>>, c.ast, c.text)

IfConditions ==
    {GreaterTen, LessFive, BareName, Parenthesized(GreaterTen), Parenthesized(LessFive),
     Parenthesized(BareName)}

\* A block body: its tokens, its statements and the Rust lines of them.
IfBody(toks, stmts, lines) == [toks |-> toks, stmts |-> stmts, lines |-> lines]

PrintDigit(d) ==
    IfBody(<<Tok("Print"), Tok("LParen"), IntegerTok(<<d>>), Tok("RParen"), Tok("Semicolon")>>,
           <<PrintStmt(IntegerExpr(<<d>>), FALSE)>>,
           <<<<"p", "r", "i", "n", "t", "!", "(", "\"", "{", "}", "\"", ",", " ">> \o <<d>> \o <<"_", "i", "6", "4", ")", ";">>>>)

EmptyBody == IfBody(<<>>, <<>>, <<>>)

\* The `else if` arms a statement is drawn from.
ElseIfArms ==
    {[condition |-> Parenthesized(LessFive), body |-> PrintDigit("2")],
     [condition |-> BareName, body |-> EmptyBody],
     [condition |-> GreaterTen, body |-> PrintDigit("1")]}

RECURSIVE ArmLists(_)
ArmLists(n) ==
    IF n = 0 THEN {<<>>}
    ELSE ArmLists(n - 1) \cup {Append(a, arm) : a \in ArmLists(n - 1), arm \in ElseIfArms}

\* What is written after the terminal else block.
AfterElse ==
    [none |-> <<>>,
     else |-> <<Tok("Else"), Tok("LBrace"), Tok("RBrace")>>,
     elseif |-> <<Tok("Else"), Tok("If"), IdentifierTok(<<"y">>), Tok("LBrace"), Tok("RBrace")>>]

Braced(body) == <<Tok("LBrace")>> \o body.toks \o <<Tok("RBrace")>>

RECURSIVE RenderArms(_)
RenderArms(arms) ==
    IF arms = <<>> THEN <<>>
    ELSE <<Tok("Else"), Tok("If")>> \o Head(arms).condition.toks \o Braced(Head(arms).body)
            \o RenderArms(Tail(arms))

\* The if statement d as tokens.
RenderIf(d) ==
    <<Tok("If")>> \o d.condition.toks \o Braced(d.then) \o RenderArms(d.arms)
       \o (IF d.else = None THEN <<>> ELSE <<Tok("Else")>> \o Braced(d.else[1]))
       \o AfterElse[d.after]

\* Parser::new on the tokens of an if statement
InitIf ==
    \E c \in IfConditions, t \in {EmptyBody, PrintDigit("1")}, arms \in ArmLists(MaxArms),
       e \in {None, Some(EmptyBody), Some(PrintDigit("3"))}, a \in DOMAIN AfterElse :
       /\ e = None => a = "none"
       /\ LET d == [condition |-> c, then |-> t, arms |-> arms, else |-> e, after |-> a]
          IN  Start(d, LexerNew(<<>>), RenderIf(d) \o <<EofTok>>, "parse")

SpecIf == InitIf /\ [][NextParse]_vars

\* The If node of the drawn statement: arms in source order, else_block from
\* the terminal else only.
DrawnIf ==
    If(drawn.condition.ast, Block(drawn.then.stmts),
       [i \in 1..Len(drawn.arms) |->
           <<drawn.arms[i].condition.ast, Block(drawn.arms[i].body.stmts)>>],
       IF drawn.else = None THEN None ELSE Some(Block(drawn.else[1].stmts)))

RECURSIVE ArmLines(_)
ArmLines(arms) ==
    IF arms = <<>> THEN <<>>
    ELSE <<<<"}", " ", "e", "l", "s", "e", " ", "i", "f", " ">> \o Head(arms).condition.text \o <<" ", "{">>>> \o Head(arms).body.lines
            \o ArmLines(Tail(arms))

\* The Rust lines of the drawn statement, without their indentation.
DrawnIfLines ==
    <<<<"i", "f", " ">> \o drawn.condition.text \o <<" ", "{">>>> \o drawn.then.lines
       \o ArmLines(drawn.arms)
       \o (IF drawn.else = None THEN <<>> ELSE <<<<"}", " ", "e", "l", "s", "e", " ", "{">>>> \o drawn.else[1].lines)
       \o <<<<"}">>>>

TrimmedLines(text) == [i \in 1..Len(Lines(text)) |-> trim_start(Lines(text)[i])]

\* C21: an if statement with a bare or parenthesized condition, zero or more
\* `else if` arms and at most one final `else` parses to a single If node
\* whose else_if_blocks hold the arms in source order and whose else_block
\* is the terminal else block alone; an `else` or `else if` written after
\* the terminal else block is not attached to the node and parse_program
\* returns Err; generate writes the node arm by arm: `if C {`, the then
\* statements, `} else if C {` and the statements of each arm in order,
\* `} else {` and the else statements, `}`.
C21_IfStatement ==
    /\ ParseReturned =>
          /\ statements # <<>> /\ statements[1] = DrawnIf
          /\ drawn.after = "none" => result = Ok(<<DrawnIf>>)
          /\ drawn.after # "none" => result.kind = "Err" /\ result.errors # <<>>
    /\ (Finished /\ result.kind = "Ok") =>
          TrimmedLines(output) = <<<<"f", "n", " ", "m", "a", "i", "n", "(", ")", " ", "{">>>> \o DrawnIfLines \o <<<<"}">>>>

\* `if (x > 10) { print(1); } else if (x < 5) { print(2); } else { print(3); }`
\* generated.
C21_ThreeWayIf ==
    /\ drawn = [condition |-> Parenthesized(GreaterTen), then |-> PrintDigit("1"),
                arms |-> <<[condition |-> Parenthesized(LessFive), body |-> PrintDigit("2")]>>,
                else |-> Some(PrintDigit("3")), after |-> "none"]
    /\ Finished
    /\ InOrder(output, <<<<"i", "f", " ", "(", "x", " ", ">", " ", "1", "0", "_", "i", "6", "4", ")", " ", "{">>, <<"p", "r", "i", "n", "t", "!", "(", "\"", "{", "}", "\"", ",", " ", "1", "_", "i", "6", "4", ")", ";">>,
                         <<"}", " ", "e", "l", "s", "e", " ", "i", "f", " ", "(", "x", " ", "<", " ", "5", "_", "i", "6", "4", ")", " ", "{">>, <<"p", "r", "i", "n", "t", "!", "(", "\"", "{", "}", "\"", ",", " ", "2", "_", "i", "6", "4", ")", ";">>,
                         <<"}", " ", "e", "l", "s", "e", " ", "{">>, <<"p", "r", "i", "n", "t", "!", "(", "\"", "{", "}", "\"", ",", " ", "3", "_", "i", "6", "4", ")", ";">>>>, 1)

\* ----------------------------------------------------------------------- C22

\* The most arguments of a drawn call.
MaxArgs == 3

\* An expression: its tokens and the Expr it stands for.
Operand(toks, ast) == [toks |-> toks, ast |-> ast]

\* The expressions written before the '(': an identifier and the same
\* between parentheses, literals, a binary and a unary expression between
\* parentheses, and a call.
CallHeads ==
    {Operand(<<IdentifierTok(<<"f">>)>>, IdentifierExpr(<<"f">>)),
     Operand(<<Tok("LParen"), IdentifierTok(<<"f">>), Tok("RParen")>>, IdentifierExpr(<<"f">>)),
     Operand(<<IntegerTok(<<"1">>)>>, IntegerExpr(<<"1">>)),
     Operand(<<StringTok(<<"s">>)>>, StringLiteral(<<"s">>)),
     Operand(<<Tok("True")>>, BooleanExpr(TRUE)),
     Operand(<<Tok("LParen"), IdentifierTok(<<"a">>), Tok("Plus"), IdentifierTok(<<"b">>),
               Tok("RParen")>>,
             BinaryOp(IdentifierExpr(<<"a">>), "Plus", IdentifierExpr(<<"b">>))),
     Operand(<<Tok("LParen"), Tok("Minus"), IdentifierTok(<<"a">>), Tok("RParen")>>,
             UnaryOp("Negate", IdentifierExpr(<<"a">>))),
     Operand(<<IdentifierTok(<<"f">>), Tok("LParen"), Tok("RParen")>>, Call(<<"f">>, <<>>))}

CallOperands ==
    {Operand(<<IdentifierTok(<<"x">>)>>, IdentifierExpr(<<"x">>)),
     Operand(<<IdentifierTok(<<"g">>), Tok("LParen"), IntegerTok(<<"2">>), Tok("RParen")>>,
             Call(<<"g">>, <<IntegerExpr(<<"2">>)>>)),
     Operand(<<IdentifierTok(<<"a">>), Tok("Plus"), IntegerTok(<<"4">>)>>,
             BinaryOp(IdentifierExpr(<<"a">>), "Plus", IntegerExpr(<<"4">>)))}

RECURSIVE OperandLists(_)
OperandLists(n) ==
    IF n = 0 THEN {<<>>}
    ELSE OperandLists(n - 1) \cup {Append(a, e) : a \in OperandLists(n - 1), e \in CallOperands}

\* What is written before the callee and after the ')'.
CallPrefixes == {"none", "sum", "negation"}

CallSuffixes == {"none", "semicolon", "sum"}

RECURSIVE RenderArguments(_)
RenderArguments(args) ==
    IF args = <<>> THEN <<>>
    ELSE Head(args).toks \o (IF Len(args) > 1 THEN <<Tok("Comma")>> ELSE <<>>)
            \o RenderArguments(Tail(args))

\* The expression statement d as tokens.
RenderCall(d) ==
    (CASE d.prefix = "none" -> <<>>
       [] d.prefix = "sum" -> <<IdentifierTok(<<"y">>), Tok("Plus")>>
       [] d.prefix = "negation" -> <<Tok("Minus")>>)
       \o d.head.toks \o <<Tok("LParen")>> \o RenderArguments(d.args) \o <<Tok("RParen")>>
       \o (CASE d.suffix = "none" -> <<>>
             [] d.suffix = "semicolon" -> <<Tok("Semicolon")>>
             [] d.suffix = "sum" -> <<Tok("Plus"), IntegerTok(<<"2">>)>>)

\* Parser::new on the tokens of an expression statement with a '(' in infix
\* position
InitCall ==
    \E h \in CallHeads, args \in OperandLists(MaxArgs), p \in CallPrefixes, s \in CallSuffixes :
       LET d == [head |-> h, args |-> args, prefix |-> p, suffix |-> s]
       IN  Start(d, LexerNew(<<>>), RenderCall(d) \o <<EofTok>>, "parse")

SpecCall == InitCall /\ [][NextParse]_vars

\* The Call of the drawn statement, inside what is written around it.
DrawnCall == Call(drawn.head.ast.name, [i \in 1..Len(drawn.args) |-> drawn.args[i].ast])

Around(e) ==
    LET inner == CASE drawn.prefix = "none" -> e
                   [] drawn.prefix = "sum" -> BinaryOp(IdentifierExpr(<<"y">>), "Plus", e)
                   [] drawn.prefix = "negation" -> UnaryOp("Negate", e)
    IN  IF drawn.suffix = "sum" THEN BinaryOp(inner, "Plus", IntegerExpr(<<"2">>)) ELSE inner

\* The Call nodes of an expression.
RECURSIVE CallNodes(_)
CallNodes(e) ==
    CASE e.k = "Call" -> {e} \cup UNION {CallNodes(e.args[i]) : i \in 1..Len(e.args)}
      [] e.k = "BinaryOp" -> CallNodes(e.left) \cup CallNodes(e.right)
      [] e.k = "UnaryOp" -> CallNodes(e.expr)
      [] OTHER -> {}

\* The Call nodes of the expression statements parsed.
CallsBuilt == UNION {CallNodes(statements[i].expr) : i \in 1..Len(statements)}

\* C22: when '(' follows an expression in infix position the parser builds
\* Call{callee, args}, with the arguments in source order, if and only if
\* the expression before it is an Identifier; before any other expression
\* (a literal, a binary or unary expression, another call) the error
\* "Expected function name (identifier) for call" is recorded and no Call
\* node is built for that '('; the callee of every Call node built is an
\* identifier name.
C22_IdentifierHeadedCalls ==
    ParseReturned =>
       /\ IF drawn.head.ast.k = "Identifier"
          THEN result = Ok(<<ExprStatement(Around(DrawnCall))>>)
          ELSE /\ result.kind = "Err"
               /\ result.errors[1].msg = "Expected function name (identifier) for call"
               /\ CallsBuilt \subseteq
                     UNION {CallNodes(drawn.args[i].ast) : i \in 1..Len(drawn.args)}
       /\ \A c \in CallsBuilt :
             /\ c.callee # <<>>
             /\ \A i \in 1..Len(c.callee) : c.callee[i] \in Alphabetic

\* parser.rs test_call_expression_parsing with a call for its second
\* argument: `f(x, g(2), a + 4)`.
C22_ThreeArguments ==
    /\ tokens = <<IdentifierTok(<<"f">>), Tok("LParen"), IdentifierTok(<<"x">>), Tok("Comma"),
                  IdentifierTok(<<"g">>), Tok("LParen"), IntegerTok(<<"2">>), Tok("RParen"),
                  Tok("Comma"), IdentifierTok(<<"a">>), Tok("Plus"), IntegerTok(<<"4">>),
                  Tok("RParen"), EofTok>>
    /\ result = Ok(<<ExprStatement(
                       Call(<<"f">>, <<IdentifierExpr(<<"x">>),
                                       Call(<<"g">>, <<IntegerExpr(<<"2">>)>>),
                                       BinaryOp(IdentifierExpr(<<"a">>), "Plus",
                                                IntegerExpr(<<"4">>))>>))>>)

\* ----------------------------------------------------------------------- C23

\* The most arguments written in a drawn print statement.
MaxPrintArgs == 2

\* An argument: its tokens, the Expr it stands for and the Rust text of it.
Argument(toks, ast, text) == [toks |-> toks, ast |-> ast, text |-> text]

PrintArguments ==
    {Argument(<<IntegerTok(<<"1", "2", "3">>)>>, IntegerExpr(<<"1", "2", "3">>), <<"1", "2", "3", "_", "i", "6", "4">>),
     Argument(<<StringTok(<<"h", "e", "l", "l", "o">>)>>, StringLiteral(<<"h", "e", "l", "l", "o">>), <<"\"", "h", "e", "l", "l", "o", "\"">>),
     Argument(<<Tok("True")>>, BooleanExpr(TRUE), <<"t", "r", "u", "e">>),
     Argument(<<IdentifierTok(<<"x">>), Tok("Plus"), IntegerTok(<<"1">>)>>,
              BinaryOp(IdentifierExpr(<<"x">>), "Plus", IntegerExpr(<<"1">>)),
              <<"(", "x", " ", "+", " ", "1", "_", "i", "6", "4", ")">>)}

RECURSIVE ArgumentLists(_)
ArgumentLists(n) ==
    IF n = 0 THEN {<<>>}
    ELSE ArgumentLists(n - 1)
            \cup {Append(a, e) : a \in ArgumentLists(n - 1), e \in PrintArguments}

\* The print statement d as tokens; each parenthesis and the ';' is written
\* or left out.
RenderPrint(d) ==
    <<Tok(d.keyword)>>
       \o (IF d.open THEN <<Tok("LParen")>> ELSE <<>>)
       \o RenderArguments(d.args)
       \o (IF d.close THEN <<Tok("RParen")>> ELSE <<>>)
       \o (IF d.semicolon THEN <<Tok("Semicolon")>> ELSE <<>>)

\* Parser::new on the tokens of a print statement
InitPrint ==
    \E k \in {"Print", "Println"}, args \in ArgumentLists(MaxPrintArgs),
       o \in BOOLEAN, c \in BOOLEAN, s \in BOOLEAN :
       LET d == [keyword |-> k, args |-> args, open |-> o, close |-> c, semicolon |-> s]
       IN  Start(d, LexerNew(<<>>), RenderPrint(d) \o <<EofTok>>, "parse")

SpecPrint == InitPrint /\ [][NextParse]_vars

\* The drawn statement is `print(e)` or `println(e)` for one argument e.
WellFormedPrint == drawn.open /\ drawn.close /\ Len(drawn.args) = 1

\* C23: print and println take exactly one parenthesized argument:
\* `print(e)` parses to Print{e, newline: false} and is written
\* `print!("{}", E);`, `println(e)` parses to Print{e, newline: true} and is
\* written `println!("{}", E);`, E being the Rust text of e; a print
\* statement without its '(' or its ')', or with no argument or more than
\* one, makes parse_program return Err.
C23_PrintStatement ==
    /\ ParseReturned =>
          IF WellFormedPrint
          THEN result = Ok(<<PrintStmt(drawn.args[1].ast, drawn.keyword = "Println")>>)
          ELSE result.kind = "Err" /\ result.errors # <<>>
    /\ (Finished /\ result.kind = "Ok") =>
          TrimmedLines(output) =
             <<<<"f", "n", " ", "m", "a", "i", "n", "(", ")", " ", "{">>,
               (IF drawn.keyword = "Println" THEN <<"p", "r", "i", "n", "t", "l", "n", "!">> ELSE <<"p", "r", "i", "n", "t", "!">>)
                  \o <<"(", "\"", "{", "}", "\"", ",", " ">> \o drawn.args[1].text \o <<")", ";">>,
               <<"}">>>>

\* generator.rs test_generate_print_statements: `println("hello");`
\* generated.
C23_PrintlnHello ==
    /\ tokens = <<Tok("Println"), Tok("LParen"), StringTok(<<"h", "e", "l", "l", "o">>), Tok("RParen"),
                  Tok("Semicolon"), EofTok>>
    /\ Finished
    /\ Contains(output, <<"p", "r", "i", "n", "t", "l", "n", "!", "(", "\"", "{", "}", "\"", ",", " ", "\"", "h", "e", "l", "l", "o", "\"", ")", ";">>)

\* ----------------------------------------------------------------------- C24

\* The most bare ';' written in a row at top level.
MaxEmpty == 2

\* The most items, statements or bare ';', written in a block.
MaxInner == 3

Semicolons(n) == [i \in 1..n |-> Tok("Semicolon")]

\* An item of a block: a bare ';' or the statement `x = 2;`.
BlockItems == {"empty", "assignment"}

RECURSIVE ItemLists(_)
ItemLists(n) ==
    IF n = 0 THEN {<<>>}
    ELSE ItemLists(n - 1) \cup {Append(a, e) : a \in ItemLists(n - 1), e \in BlockItems}

AssignTwoTokens ==
    <<IdentifierTok(<<"x">>), Tok("Assign"), IntegerTok(<<"2">>), Tok("Semicolon")>>

AssignTwo == Assignment(<<"x">>, IntegerExpr(<<"2">>))

RECURSIVE RenderBlockItems(_)
RenderBlockItems(items) ==
    IF items = <<>> THEN <<>>
    ELSE (IF Head(items) = "empty" THEN <<Tok("Semicolon")>> ELSE AssignTwoTokens)
            \o RenderBlockItems(Tail(items))

\* The statements among the items, in order.
RECURSIVE ItemStatements(_)
ItemStatements(items) ==
    IF items = <<>> THEN <<>>
    ELSE (IF Head(items) = "empty" THEN <<>> ELSE <<AssignTwo>>) \o ItemStatements(Tail(items))

\* The statements written with a block, or with two.
BlockKinds == {"none", "if", "ifelse", "loop", "while", "for"}

InBraces(items) == <<Tok("LBrace")>> \o RenderBlockItems(items) \o <<Tok("RBrace")>>

RenderBlockStatement(kind, items) ==
    CASE kind = "none" -> <<>>
      [] kind = "if" -> <<Tok("If"), Tok("True")>> \o InBraces(items)
      [] kind = "ifelse" ->
           <<Tok("If"), Tok("True")>> \o InBraces(items) \o <<Tok("Else")>> \o InBraces(items)
      [] kind = "loop" -> <<Tok("Loop")>> \o InBraces(items)
      [] kind = "while" -> <<Tok("While"), IdentifierTok(<<"x">>)>> \o InBraces(items)
      [] kind = "for" ->
           <<Tok("For"), Tok("Semicolon"), Tok("Semicolon"), IdentifierTok(<<"i">>)>>
              \o InBraces(items)

\* The statement a block statement parses to, `body` being its statements.
BlockStatement(kind, body) ==
    CASE kind = "none" -> <<>>
      [] kind = "if" -> <<If(BooleanExpr(TRUE), Block(body), <<>>, None)>>
      [] kind = "ifelse" -> <<If(BooleanExpr(TRUE), Block(body), <<>>, Some(Block(body)))>>
      [] kind = "loop" -> <<Loop(Block(body))>>
      [] kind = "while" -> <<While(IdentifierExpr(<<"x">>), Block(body))>>
      [] kind = "for" -> <<For(None, None, Some(IdentifierExpr(<<"i">>)), Block(body))>>

\* The program d as tokens: bare ';' before, between and after a simple
\* statement and a block statement.
RenderEmpty(d) ==
    Semicolons(d.before)
       \o (IF d.first THEN AssignTwoTokens ELSE <<>>)
       \o Semicolons(d.between)
       \o RenderBlockStatement(d.kind, d.items)
       \o Semicolons(d.after)

\* Parser::new on the tokens of a program with bare ';'
InitEmpty ==
    \E b \in 0..MaxEmpty, f \in BOOLEAN, m \in 0..MaxEmpty, k \in BlockKinds,
       items \in ItemLists(MaxInner), a \in 0..MaxEmpty :
       /\ k = "none" => items = <<>>
       /\ LET d == [before |-> b, first |-> f, between |-> m, kind |-> k, items |-> items,
                    after |-> a]
          IN  Start(d, LexerNew(<<>>), RenderEmpty(d) \o <<EofTok>>, "parse")

SpecEmpty == InitEmpty /\ [][NextParse]_vars

\* C24: a bare ';' is an empty statement: at top level and inside the block
\* of an if, an else, a loop, a while or a for it adds no node to the
\* statement list and records no error, so parse_program returns Ok of
\* exactly the statements other than bare ';', in source order.
C24_EmptyStatements ==
    ParseReturned =>
       result = Ok((IF drawn.first THEN <<AssignTwo>> ELSE <<>>)
                      \o BlockStatement(drawn.kind, ItemStatements(drawn.items)))

\* parser.rs test_if_block_with_semicolons_only: `if true { ;;; }`.
C24_IfWithSemicolonsOnly ==
    /\ tokens = <<Tok("If"), Tok("True"), Tok("LBrace"), Tok("Semicolon"), Tok("Semicolon"),
                  Tok("Semicolon"), Tok("RBrace"), EofTok>>
    /\ result = Ok(<<If(BooleanExpr(TRUE), Block(<<>>), <<>>, None)>>)

\* ----------------------------------------------------------------------- C25

\* The most pieces written after the word of a drawn text.
MaxSuffixPieces == 2

\* The reserved words, each with the type of its keyword token.
ReservedWords ==
    {<<<<"l", "e", "t">>, "Let">>, <<<<"m", "u", "t">>, "Mut">>, <<<<"i", "f">>, "If">>, <<<<"e", "l", "s", "e">>, "Else">>,
     <<<<"l", "o", "o", "p">>, "Loop">>, <<<<"w", "h", "i", "l", "e">>, "While">>, <<<<"f", "o", "r">>, "For">>, <<<<"f", "n">>, "Fn">>,
     <<<<"r", "e", "t", "u", "r", "n">>, "Return">>, <<<<"t", "r", "u", "e">>, "True">>, <<<<"f", "a", "l", "s", "e">>, "False">>,
     <<<<"p", "r", "i", "n", "t">>, "Print">>, <<<<"p", "r", "i", "n", "t", "l", "n">>, "Println">>, <<<<"b", "r", "e", "a", "k">>, "Break">>,
     <<<<"c", "o", "n", "t", "i", "n", "u", "e">>, "Continue">>}

Reserved == {w[1] : w \in ReservedWords}

KeywordTypes == {w[2] : w \in ReservedWords}

\* Words that are not reserved: a reserved word in another case, and the
\* beginning of one.
OtherWords == {<<"L", "e", "t">>, <<"T", "R", "U", "E">>, <<"f", "o">>}

\* What is written before the word and after it.
WordLeads == {<<>>, <<" ">>, <<"x">>, <<"1">>}

SuffixPieces == {<<"t">>, <<"l", "n">>, <<"t", "e", "r">>, <<"_">>, <<"1">>, <<" ">>}

RECURSIVE Suffixes(_)
Suffixes(n) ==
    IF n = 0 THEN {<<>>}
    ELSE Suffixes(n - 1) \cup {s \o p : s \in Suffixes(n - 1), p \in SuffixPieces}

\* Lexer::new on a word with something before and after it
InitWord ==
    \E lead \in WordLeads, w \in Reserved \cup OtherWords, s \in Suffixes(MaxSuffixPieces) :
       Start(lead \o w \o s, LexerNew(lead \o w \o s), <<>>, "lex")

SpecWord == InitWord /\ [][NextLex]_vars

\* The maximal identifier lexemes of a text of letters, digits, '_' and
\* spaces, from index i on: a lexeme starts at a letter or '_' outside a
\* lexeme and outside a number, and runs over letters, digits and '_'.
RECURSIVE Lexemes(_, _)
Lexemes(text, i) ==
    IF i > Len(text) THEN <<>>
    ELSE IF text[i] \in Alphabetic \cup {"_"}
    THEN LET e == FirstNotIn(text, i, Alphabetic \cup Digit \cup {"_"})
         IN  <<SubSeq(text, i, e - 1)>> \o Lexemes(text, e)
    ELSE IF text[i] \in Digit THEN Lexemes(text, FirstNotIn(text, i, Digit))
    ELSE Lexemes(text, i + 1)

\* The token claimed for a lexeme.
LexemeToken(w) ==
    IF w \in Reserved THEN Tok((CHOOSE r \in ReservedWords : r[1] = w)[2])
    ELSE IdentifierTok(w)

\* The keyword and Identifier tokens among ts, in order.
RECURSIVE WordTokens(_)
WordTokens(ts) ==
    IF ts = <<>> THEN <<>>
    ELSE (IF Head(ts).type \in KeywordTypes \cup {"Identifier"} THEN <<Head(ts)>> ELSE <<>>)
            \o WordTokens(Tail(ts))

\* C25: keywords and identifiers are disjoint: no Identifier token carries a
\* reserved word; a maximal identifier lexeme equal to a reserved word is
\* lexed as the keyword token of that word, and every other maximal
\* identifier lexeme, a longer one beginning with a reserved word included,
\* as Identifier of the lexeme.
C25_KeywordsReserved ==
    /\ \A i \in 1..Len(tokens) :
          tokens[i].type = "Identifier" => tokens[i].name \notin Reserved
    /\ LexedAll =>
          LET words == Lexemes(drawn, 1)
          IN  WordTokens(BeforeEof(tokens)) = [i \in 1..Len(words) |-> LexemeToken(words[i])]

\* `letter` lexed: one Identifier.
C25_Letter ==
    /\ drawn = <<"l", "e", "t", "t", "e", "r">>
    /\ tokens = <<IdentifierTok(<<"l", "e", "t", "t", "e", "r">>), EofTok>>

\* ----------------------------------------------------------------------- C26

\* The parts of a declaration, each written or left out.
LetAnnotations ==
    [none |-> <<>>,
     typed |-> <<Tok("Colon"), IdentifierTok(<<"i", "n", "t">>)>>,
     untyped |-> <<Tok("Colon")>>]

LetValues ==
    [five |-> <<IntegerTok(<<"5">>)>>,
     ten |-> <<IntegerTok(<<"1", "0">>)>>,
     none |-> <<>>,
     unfinished |-> <<IntegerTok(<<"5">>), Tok("Plus")>>]

\* The declaration d as tokens.
RenderLet(d) ==
    <<Tok(d.keyword)>>
       \o (IF d.name THEN <<IdentifierTok(<<"x">>)>> ELSE <<>>)
       \o LetAnnotations[d.annotation]
       \o (IF d.assign THEN <<Tok("Assign")>> ELSE <<>>)
       \o LetValues[d.value]
       \o (IF d.semicolon THEN <<Tok("Semicolon")>> ELSE <<>>)

\* Parser::new on the tokens of a let or mut declaration
InitLet ==
    \E k \in {"Let", "Mut"}, n \in BOOLEAN, a \in DOMAIN LetAnnotations, e \in BOOLEAN,
       v \in DOMAIN LetValues, s \in BOOLEAN :
       LET d == [keyword |-> k, name |-> n, annotation |-> a, assign |-> e, value |-> v,
                 semicolon |-> s]
       IN  Start(d, LexerNew(<<>>), RenderLet(d) \o <<EofTok>>, "parse")

SpecLet == InitLet /\ [][NextParse]_vars

\* The defects of the drawn declaration: a missing identifier, a missing
\* type name after ':', a missing '=', a missing or unfinished value.
Defects ==
    {"identifier" : x \in {1} \cap (IF drawn.name THEN {} ELSE {1})}
       \cup {"type" : x \in {1} \cap (IF drawn.annotation = "untyped" THEN {1} ELSE {})}
       \cup {"assign" : x \in {1} \cap (IF drawn.assign THEN {} ELSE {1})}
       \cup {"value" : x \in {1} \cap (IF drawn.value \in {"none", "unfinished"} THEN {1} ELSE {})}

\* C26: a let or mut declaration with a single defect (a missing identifier,
\* a missing '=', a missing value expression, or a missing type name after
\* ':') makes parse_program return Err with exactly one error message.
C26_SingleDefectSingleError ==
    (ParseReturned /\ Cardinality(Defects) = 1) =>
       result.kind = "Err" /\ Len(result.errors) = 1

\* A declaration with a single defect makes parse_program return Err; the
\* message is single when the defect is the missing '=', and there are two
\* messages for each other defect.
C26_SingleDefectErrors ==
    (ParseReturned /\ Cardinality(Defects) = 1) =>
       /\ result.kind = "Err"
       /\ Len(result.errors) = IF Defects = {"assign"} THEN 1 ELSE 2

\* parser.rs test_let_statement_errors: `let = 5;` returns two messages.
C26_MissingIdentifier ==
    /\ tokens = <<Tok("Let"), Tok("Assign"), IntegerTok(<<"5">>), Tok("Semicolon"), EofTok>>
    /\ result.kind = "Err"
    /\ Len(result.errors) = 2
    /\ result.errors[1] = Error("expected next token to be Identifier(IDENTIFIER_NAME)",
                               Tok("Assign"))
    /\ result.errors[2] = Error("No prefix parse function", Tok("Assign"))

\* ----------------------------------------------------------------------- C27
\*
\* main.rs: the driver around the translation. What the file system, rustc
\* and the launched executable answer is drawn when main asks.

\* main has performed `stage`, with success or not, and goes on at `step`.
Performed(stage, ok, step) ==
    [driver EXCEPT !.stages = Append(@, <<stage, ok>>), !.step = step]

\* main has performed `stage`, with success or not, and returns.
Return(stage, ok, value) ==
    [driver EXCEPT !.stages = Append(@, <<stage, ok>>), !.step = "returned",
                   !.returned = value]

\* The exit code of the process: 0 when main returns Ok, 1 when it returns
\* Err.
ExitCode == IF driver.returned = "Ok" THEN 0 ELSE 1

\* fs::read_to_string(&args.source_file)
ReadSource ==
    /\ phase = "read" /\ driver.returned = "none"
    /\ \E ok \in BOOLEAN :
          IF ok
          THEN /\ phase' = "lex"
               /\ lexer' = LexerNew(drawn.source)
               /\ driver' = Performed("read", TRUE, "translate")
          ELSE /\ driver' = Return("read", FALSE, "Err")
               /\ UNCHANGED <<phase, lexer>>
    /\ UNCHANGED <<drawn, tokens, cursor, statements, errors, result, output, gen_index>>

\* The Err arm of the match on parser.parse_program()
ParseFailed ==
    /\ phase = "done" /\ driver.step = "translate"
    /\ result.kind = "Err"
    /\ driver' = Return("parse", FALSE, "Err")
    /\ UNCHANGED <<drawn, lexer, tokens, phase, cursor, statements, errors, result, output,
                   gen_index>>

\* generator::generate has returned; fs::write(&rust_output_path, &rust_code)
WriteRust ==
    /\ phase = "done" /\ driver.step = "translate"
    /\ result.kind = "Ok"
    /\ LET generated == [driver EXCEPT !.stages = @ \o <<<<"parse", TRUE>>, <<"generate", TRUE>>>>]
       IN  \E ok \in BOOLEAN :
              driver' =
                 IF ~ok
                 THEN [generated EXCEPT !.stages = Append(@, <<"write", FALSE>>),
                                        !.step = "returned", !.returned = "Err"]
                 ELSE [generated EXCEPT !.stages = Append(@, <<"write", TRUE>>),
                                        !.step = IF drawn.compile THEN "compile" ELSE "return"]
    /\ UNCHANGED <<drawn, lexer, tokens, phase, cursor, statements, errors, result, output,
                   gen_index>>

\* What a launched command answers: it could not be started, it exited
\* unsuccessfully, or it exited successfully.
CommandOutcomes == {"not started", "failure", "success"}

\* Command::new("rustc") ... output(), and the test of output.status
Compile ==
    /\ driver.step = "compile"
    /\ \E outcome \in CommandOutcomes :
          driver' =
             IF outcome = "success"
             THEN Performed("compile", TRUE, IF drawn.run THEN "run" ELSE "remove")
             ELSE Return("compile", FALSE, "Err")
    /\ UNCHANGED <<drawn, lexer, tokens, phase, cursor, statements, errors, result, output,
                   gen_index>>

\* Command::new(&executable_path) ... status(), and the test of run_status
Run ==
    /\ driver.step = "run"
    /\ \E outcome \in CommandOutcomes :
          driver' =
             CASE outcome = "not started" -> Return("run", FALSE, "Err")
               [] outcome = "failure" -> Performed("run", FALSE, "remove")
               [] outcome = "success" -> Performed("run", TRUE, "remove")
    /\ UNCHANGED <<drawn, lexer, tokens, phase, cursor, statements, errors, result, output,
                   gen_index>>

\* if !args.keep_rs { fs::remove_file(&rust_output_path) }
RemoveRs ==
    /\ driver.step = "remove"
    /\ \E ok \in BOOLEAN :
          driver' =
             IF drawn.keep_rs THEN [driver EXCEPT !.step = "return"]
             ELSE IF ok THEN Performed("remove", TRUE, "return")
             ELSE Return("remove", FALSE, "Err")
    /\ UNCHANGED <<drawn, lexer, tokens, phase, cursor, statements, errors, result, output,
                   gen_index>>

\* Ok(()) at the end of main
ReturnOk ==
    /\ driver.step = "return"
    /\ driver' = [driver EXCEPT !.step = "returned", !.returned = "Ok"]
    /\ UNCHANGED <<drawn, lexer, tokens, phase, cursor, statements, errors, result, output,
                   gen_index>>

\* The source files main is run on.
MainSources == {SrcPrints, SrcLoop, SrcLetMut}

\* Args::parse: --run requires --compile
InitMain ==
    \E src \in MainSources, c \in BOOLEAN, r \in BOOLEAN, k \in BOOLEAN :
       /\ r => c
       /\ Start([source |-> src, compile |-> c, run |-> r, keep_rs |-> k],
                LexerNew(<<>>), <<>>, "read")

NextMain ==
    \/ ReadSource
    \/ LexNextToken
    \/ ParserNew
    \/ ParseStatement
    \/ ParseReturn
    \/ GenerateOpen
    \/ GenerateStatement
    \/ GenerateClose
    \/ ParseFailed
    \/ WriteRust
    \/ Compile
    \/ Run
    \/ RemoveRs
    \/ ReturnOk

SpecMain == InitMain /\ [][NextMain]_vars

\* The stages main was asked to perform.
StagesAsked ==
    {"read", "parse", "generate", "write"}
       \cup (IF drawn.compile THEN {"compile"} ELSE {})
       \cup (IF drawn.run THEN {"run"} ELSE {})

\* The stages main has performed with success, and those that failed.
Succeeded == {driver.stages[i][1] : i \in {j \in 1..Len(driver.stages) : driver.stages[j][2]}}

Failed == {driver.stages[i][1] : i \in {j \in 1..Len(driver.stages) : ~driver.stages[j][2]}}

\* C27: the driver exits with code 0 only when every stage it was asked to
\* perform has succeeded (read, parse, generate, write and, when asked,
\* compile and run), and with another code when one of them has failed, the
\* launched executable exiting unsuccessfully included.
C27_ExitCode ==
    driver.returned # "none" =>
       /\ ExitCode = 0 => StagesAsked \subseteq Succeeded
       /\ (Failed \cap StagesAsked # {}) => ExitCode # 0

\* The same with the run stage left out: the driver exits with code 0 only
\* when reading, parsing, generating, writing and, when asked, compiling
\* have succeeded, and with code 1 when one of them has failed.
C27_ExitCodeBeforeRun ==
    driver.returned # "none" =>
       /\ ExitCode = 0 => (StagesAsked \ {"run"}) \subseteq Succeeded
       /\ (Failed \cap (StagesAsked \ {"run"}) # {}) => ExitCode = 1

\* --compile --run on a program whose executable exits unsuccessfully: main
\* returns Ok.
C27_RunFailedExitZero ==
    /\ drawn.run
    /\ <<"run", FALSE>> \in {driver.stages[i] : i \in 1..Len(driver.stages)}
    /\ driver.returned = "Ok"
    /\ ExitCode = 0

\* ----------------------------------------------------------------------- C28
\*
\* The execution of a for loop as the source language means it, and of the
\* while loop written for it as Rust means it. Both are loops over the same
\* statements, which "map literally"; they differ in where `continue` goes.

\* The most statements in the body of a drawn for loop.
MaxLoopBody == 2

\* The most condition tests of an execution that is followed.
MaxTests == 4

\* A statement of a loop body: its tokens, its node and its Rust lines.
BodyPiece(toks, stmt, lines) == [toks |-> toks, stmt |-> stmt, lines |-> lines]

IPlusOne == BinaryOp(IdentifierExpr(<<"i">>), "Plus", IntegerExpr(<<"1">>))

IPlusOneTokens == <<IdentifierTok(<<"i">>), Tok("Plus"), IntegerTok(<<"1">>)>>

ILessThan(d) == BinaryOp(IdentifierExpr(<<"i">>), "Lt", IntegerExpr(<<d>>))

ILessThanTokens(d) == <<IdentifierTok(<<"i">>), Tok("Lt"), IntegerTok(<<d>>)>>

LoopBodyPieces ==
    {BodyPiece(<<IdentifierTok(<<"i">>), Tok("Assign")>> \o IPlusOneTokens \o <<Tok("Semicolon")>>,
               Assignment(<<"i">>, IPlusOne), <<<<"i", " ", "=", " ", "(", "i", " ", "+", " ", "1", "_", "i", "6", "4", ")", ";">>>>),
     BodyPiece(<<Tok("Continue"), Tok("Semicolon")>>, Continue, <<<<"c", "o", "n", "t", "i", "n", "u", "e", ";">>>>),
     BodyPiece(<<Tok("Break"), Tok("Semicolon")>>, Break, <<<<"b", "r", "e", "a", "k", ";">>>>),
     BodyPiece(<<Tok("If")>> \o ILessThanTokens("2")
                  \o <<Tok("LBrace"), Tok("Continue"), Tok("Semicolon"), Tok("RBrace")>>,
               If(ILessThan("2"), Block(<<Continue>>), <<>>, None),
               <<<<"i", "f", " ", "(", "i", " ", "<", " ", "2", "_", "i", "6", "4", ")", " ", "{">>, <<"c", "o", "n", "t", "i", "n", "u", "e", ";">>, <<"}">>>>),
     BodyPiece(<<Tok("Print"), Tok("LParen"), IdentifierTok(<<"i">>), Tok("RParen"),
                 Tok("Semicolon")>>,
               PrintStmt(IdentifierExpr(<<"i">>), FALSE), <<<<"p", "r", "i", "n", "t", "!", "(", "\"", "{", "}", "\"", ",", " ", "i", ")", ";">>>>)}

RECURSIVE LoopBodies(_)
LoopBodies(n) ==
    IF n = 0 THEN {<<>>}
    ELSE LoopBodies(n - 1) \cup {Append(b, p) : b \in LoopBodies(n - 1), p \in LoopBodyPieces}

\* The conditions and increments of the drawn loops: tokens, node, Rust text.
LoopConditions ==
    {IfCondition(<<>>, None, <<"t", "r", "u", "e">>),
     IfCondition(ILessThanTokens("3"), Some(ILessThan("3")), <<"(", "i", " ", "<", " ", "3", "_", "i", "6", "4", ")">>),
     IfCondition(ILessThanTokens("1"), Some(ILessThan("1")), <<"(", "i", " ", "<", " ", "1", "_", "i", "6", "4", ")">>)}

LoopIncrements ==
    {IfCondition(IPlusOneTokens, IPlusOne, <<"(", "i", " ", "+", " ", "1", "_", "i", "6", "4", ")">>),
     IfCondition(<<IdentifierTok(<<"i">>)>>, IdentifierExpr(<<"i">>), <<"i">>)}

RECURSIVE PieceTokens(_)
PieceTokens(body) ==
    IF body = <<>> THEN <<>> ELSE Head(body).toks \o PieceTokens(Tail(body))

RECURSIVE PieceLines(_)
PieceLines(body) ==
    IF body = <<>> THEN <<>> ELSE Head(body).lines \o PieceLines(Tail(body))

\* `for mut i = 0; CONDITION; INCREMENT { BODY }` as tokens.
RenderLoop(d) ==
    <<Tok("For"), Tok("Mut"), IdentifierTok(<<"i">>), Tok("Assign"), IntegerTok(<<"0">>),
      Tok("Semicolon")>>
       \o d.condition.toks \o <<Tok("Semicolon")>> \o d.increment.toks
       \o <<Tok("LBrace")>> \o PieceTokens(d.body) \o <<Tok("RBrace")>>

\* Parser::new on the tokens of a for loop
InitLoop ==
    \E c \in LoopConditions, inc \in LoopIncrements, b \in LoopBodies(MaxLoopBody) :
       LET d == [condition |-> c, increment |-> inc, body |-> b]
       IN  Start(d, LexerNew(<<>>), RenderLoop(d) \o <<EofTok>>, "parse")

SpecLoop == InitLoop /\ [][NextParse]_vars

\* The value of an expression over i.
RECURSIVE Value(_, _)
Value(e, i) ==
    CASE e.k = "Integer" -> DecimalValue(e.val)
      [] e.k = "Identifier" -> i
      [] e.k = "BinaryOp" /\ e.op = "Plus" -> Value(e.left, i) + Value(e.right, i)
      [] e.k = "BinaryOp" /\ e.op = "Lt" -> Value(e.left, i) < Value(e.right, i)

\* A run: the value of i, the events so far, and how the statements ended.
RunState(i, events, signal) == [i |-> i, events |-> events, signal |-> signal]

\* The statements of a block executed in order, up to a break or continue;
\* the meaning is the same in both languages.
RECURSIVE Execute(_, _)
Execute(stmts, run) ==
    IF stmts = <<>> \/ run.signal # "next" THEN run
    ELSE LET s == Head(stmts)
             after ==
                CASE s.k = "Assignment" -> [run EXCEPT !.i = Value(s.value_expr, run.i)]
                  [] s.k = "ExprStatement" ->
                       [run EXCEPT !.events = Append(@, <<"evaluate", s.expr>>)]
                  [] s.k = "Print" ->
                       [run EXCEPT !.events = Append(@, <<"print", Value(s.expr, run.i)>>)]
                  [] s.k = "Break" -> [run EXCEPT !.signal = "break"]
                  [] s.k = "Continue" -> [run EXCEPT !.signal = "continue"]
                  [] s.k = "If" ->
                       IF Value(s.condition, run.i) THEN Execute(s.then_block.statements, run)
                       ELSE run
         IN  Execute(Tail(stmts), after)

Test(condition, run) ==
    LET t == IF condition = None THEN TRUE ELSE Value(condition[1], run.i)
    IN  [run EXCEPT !.events = Append(@, <<"test", t>>), !.signal = IF t THEN "next" ELSE "break"]

\* A C-style for loop: test, body, increment; `continue` ends the body and
\* goes to the increment. At most `tests` tests are followed.
RECURSIVE ForLoop(_, _, _, _, _)
ForLoop(condition, increment, body, run, tests) ==
    IF tests = 0 THEN run
    ELSE LET t == Test(condition, run)
             b == Execute(body, t)
         IN  IF t.signal = "break" \/ b.signal = "break" THEN b
             ELSE ForLoop(condition, increment, body,
                          [b EXCEPT !.events = Append(@, <<"evaluate", increment>>),
                                    !.signal = "next"],
                          tests - 1)

\* A Rust while loop: test, body; `continue` ends the body and goes to the
\* test. At most `tests` tests are followed.
RECURSIVE WhileLoop(_, _, _, _)
WhileLoop(condition, body, run, tests) ==
    IF tests = 0 THEN run
    ELSE LET t == Test(condition, run)
             b == Execute(body, t)
         IN  IF t.signal = "break" \/ b.signal = "break" THEN b
             ELSE WhileLoop(condition, body, [b EXCEPT !.signal = "next"], tests - 1)

DrawnBody == [j \in 1..Len(drawn.body) |-> drawn.body[j].stmt]

\* The For node of the drawn loop.
DrawnFor ==
    For(Some(LetDecl(<<"i">>, None, TRUE, IntegerExpr(<<"0">>))), drawn.condition.ast,
        Some(drawn.increment.ast), Block(DrawnBody))

\* The Rust lines of the drawn loop: the declaration, the while line, the
\* body, the increment as the last statement of the while body.
DrawnLoopLines ==
    <<<<"l", "e", "t", " ", "m", "u", "t", " ", "i", " ", "=", " ", "0", "_", "i", "6", "4", ";">>, <<"w", "h", "i", "l", "e", " ">> \o drawn.condition.text \o <<" ", "{">>>>
       \o PieceLines(drawn.body)
       \o <<drawn.increment.text \o <<";">>, <<"}">>>>

\* The events of the source loop and of the loop written for it, i starting
\* at 0.
SourceEvents ==
    ForLoop(drawn.condition.ast, drawn.increment.ast, DrawnBody,
            RunState(0, <<>>, "next"), MaxTests).events

EmittedEvents ==
    WhileLoop(drawn.condition.ast, Append(DrawnBody, ExprStatement(drawn.increment.ast)),
              RunState(0, <<>>, "next"), MaxTests).events

\* generate has written the drawn loop as DrawnLoopLines.
LoopEmitted ==
    /\ Finished /\ result = Ok(<<DrawnFor>>)
    /\ TrimmedLines(output) = <<<<"f", "n", " ", "m", "a", "i", "n", "(", ")", " ", "{">>>> \o DrawnLoopLines \o <<<<"}">>>>

\* C28: the while loop written for a for loop performs the same sequence of
\* condition tests, body statements and increments as the for loop: the
\* increment is executed after every iteration whose condition was true,
\* the iterations that the body ends with `continue` included.
C28_ForControlFlow == LoopEmitted => EmittedEvents = SourceEvents

\* The same for the loops whose body holds no `continue`.
C28_ForControlFlowWithoutContinue ==
    (LoopEmitted /\ \A j \in 1..Len(DrawnBody) : DrawnBody[j].k \notin {"Continue", "If"}) =>
       EmittedEvents = SourceEvents

\* `for mut i = 0; i < 3; i + 1 { i = i + 1; continue; }`: the source loop
\* evaluates the increment after each of its iterations, the while loop
\* written for it never does.
C28_ContinueSkipsIncrement ==
    /\ LoopEmitted
    /\ drawn.condition.ast = Some(ILessThan("3"))
    /\ DrawnBody = <<Assignment(<<"i">>, IPlusOne), Continue>>
    /\ <<"evaluate", drawn.increment.ast>> \in {SourceEvents[j] : j \in 1..Len(SourceEvents)}
    /\ <<"evaluate", drawn.increment.ast>> \notin {EmittedEvents[j] : j \in 1..Len(EmittedEvents)}

\* ----------------------------------------------------------------------- C29

\* The most statements in a block of a drawn program.
MaxNested == 2

\* A run of tokens with the extents <<first, last>> of the statements
\* written in it, nested ones included.
Plain(toks) == [toks |-> toks, extents |-> {}]

Join(a, b) ==
    [toks |-> a.toks \o b.toks,
     extents |-> a.extents \cup {<<x[1] + Len(a.toks), x[2] + Len(a.toks)>> : x \in b.extents}]

\* The whole run is one statement.
Whole(a) == [toks |-> a.toks, extents |-> a.extents \cup {<<1, Len(a.toks)>>}]

InBlock(body) == Join(Plain(<<Tok("LBrace")>>), Join(body, Plain(<<Tok("RBrace")>>)))

\* The statements without a block, with and without their ';'.
PlainStatements ==
    {Whole(Plain(<<Tok("Let"), IdentifierTok(<<"a">>), Tok("Assign"), IntegerTok(<<"1">>)>>)),
     Whole(Plain(<<Tok("Mut"), IdentifierTok(<<"b">>), Tok("Colon"), IdentifierTok(<<"i", "n", "t">>),
                   Tok("Assign"), IdentifierTok(<<"a">>), Tok("Plus"), IntegerTok(<<"1">>),
                   Tok("Semicolon")>>)),
     Whole(Plain(<<IdentifierTok(<<"x">>), Tok("Assign"), IntegerTok(<<"2">>), Tok("Semicolon")>>)),
     Whole(Plain(<<IdentifierTok(<<"f">>), Tok("LParen"), IdentifierTok(<<"x">>), Tok("Comma"),
                   IntegerTok(<<"1">>), Tok("RParen")>>)),
     Whole(Plain(<<Tok("Print"), Tok("LParen"), IdentifierTok(<<"x">>), Tok("RParen")>>)),
     Whole(Plain(<<Tok("Break")>>)),
     Whole(Plain(<<Tok("Continue"), Tok("Semicolon")>>))}

\* The statements written in a block: some of those, and two with a block of
\* their own.
NestedStatements ==
    {s \in PlainStatements : s.toks[1].type \in {"Let", "Identifier", "Print", "Continue"}}
       \cup {Whole(Join(Plain(<<Tok("Loop")>>), InBlock(Whole(Plain(<<Tok("Break")>>))))),
             Whole(Join(Plain(<<Tok("If"), IdentifierTok(<<"x">>)>>),
                        InBlock(Whole(Plain(<<IdentifierTok(<<"y">>), Tok("Semicolon")>>)))))}

RECURSIVE NestedBodies(_)
NestedBodies(n) ==
    IF n = 0 THEN {Plain(<<>>)}
    ELSE NestedBodies(n - 1) \cup {Join(b, s) : b \in NestedBodies(n - 1), s \in NestedStatements}

\* The initializers of a for header; the ';' after them is their own.
CursorInitializers ==
    {Plain(<<Tok("Semicolon")>>),
     Whole(Plain(<<Tok("Let"), IdentifierTok(<<"i">>), Tok("Assign"), IntegerTok(<<"0">>),
                   Tok("Semicolon")>>)),
     Whole(Plain(<<IdentifierTok(<<"i">>), Tok("Assign"), IntegerTok(<<"0">>),
                   Tok("Semicolon")>>))}

\* The statements with a block, over the body b.
BlockStatements(b) ==
    {Whole(Join(Plain(<<Tok("If"), IdentifierTok(<<"x">>)>>), InBlock(b))),
     Whole(Join(Plain(<<Tok("If"), Tok("LParen"), IdentifierTok(<<"x">>), Tok("RParen")>>),
                Join(InBlock(b),
                     Join(Plain(<<Tok("Else"), Tok("If"), IdentifierTok(<<"y">>)>>),
                          Join(InBlock(b), Join(Plain(<<Tok("Else")>>), InBlock(b))))))),
     Whole(Join(Plain(<<Tok("Loop")>>), InBlock(b))),
     Whole(Join(Plain(<<Tok("While"), IdentifierTok(<<"x">>), Tok("Lt"), IntegerTok(<<"3">>)>>),
                InBlock(b)))}
       \cup {Whole(Join(Plain(<<Tok("For")>>),
                        Join(i, Join(Plain(<<IdentifierTok(<<"i">>), Tok("Lt"), IntegerTok(<<"3">>),
                                             Tok("Semicolon"), IdentifierTok(<<"i">>), Tok("Plus"),
                                             IntegerTok(<<"1">>)>>),
                                     InBlock(b))))) : i \in CursorInitializers}

\* What is written after the statement: nothing, a bare ';' (after a
\* statement that ends with its own ';' or with '}'), or a statement.
CursorFollowers ==
    {Plain(<<>>), Plain(<<Tok("Semicolon")>>),
     Whole(Plain(<<IdentifierTok(<<"z">>), Tok("Semicolon")>>))}

\* Parser::new on the tokens of a statement and what follows it
InitCursor ==
    \E s \in PlainStatements \cup UNION {BlockStatements(b) : b \in NestedBodies(MaxNested)},
       f \in CursorFollowers :
       /\ f.toks = <<Tok("Semicolon")>> => s.toks[Len(s.toks)].type \in {"Semicolon", "RBrace"}
       /\ Start(Join(s, f), LexerNew(<<>>), Join(s, f).toks \o <<EofTok>>, "parse")

SpecCursor == InitCursor /\ [][NextParse]_vars

\* The extents that lie in no other one: the statements at top level.
TopLevel(extents) ==
    {x \in extents : \A y \in extents : (y[1] <= x[1] /\ x[2] <= y[2]) => y = x}

\* parse_statement called with the token at index `first` current.
StatementAt(first) == parse_statement(tokens, [p |-> first, errs |-> <<>>])

\* C29: whenever parse_statement returns Some(statement), current_token is
\* the last token of that statement (its ';' when one is written, otherwise
\* the last token of its expression, the ')' of a print, the break or
\* continue keyword, or the '}' of its last block), so that peek_token is
\* the first token after it: for every statement at top level, in a block
\* and in the initializer position of a for header.
C29_CursorDiscipline ==
    /\ \A x \in drawn.extents :
          /\ StatementAt(x[1]).some
          /\ StatementAt(x[1]).st.p = x[2]
    /\ phase = "parse" =>
          cursor \in {1, Len(tokens)} \cup {x[2] + 1 : x \in TopLevel(drawn.extents)}

\* `for let i = 0; i < 3; i + 1 { print(x) continue; } z;` parsed: the for
\* statement ended on its '}', `z;` is the second statement.
C29_ForThenStatement ==
    /\ tokens = <<Tok("For"), Tok("Let"), IdentifierTok(<<"i">>), Tok("Assign"), IntegerTok(<<"0">>),
                  Tok("Semicolon"), IdentifierTok(<<"i">>), Tok("Lt"), IntegerTok(<<"3">>),
                  Tok("Semicolon"), IdentifierTok(<<"i">>), Tok("Plus"), IntegerTok(<<"1">>),
                  Tok("LBrace"), Tok("Print"), Tok("LParen"), IdentifierTok(<<"x">>),
                  Tok("RParen"), Tok("Continue"), Tok("Semicolon"), Tok("RBrace"),
                  IdentifierTok(<<"z">>), Tok("Semicolon"), EofTok>>
    /\ drawn.extents = {<<1, 21>>, <<2, 6>>, <<15, 18>>, <<19, 20>>, <<22, 23>>}
    /\ StatementAt(1).st.p = 21
    /\ Len(statements) = 2 /\ statements[1].k = "For"
    /\ result.kind = "Ok"

\* ----------------------------------------------------------------------- C30

\* The most digits written after the stem of a drawn literal, and the most
\* zeros written before it.
MaxTailDigits == 3

MaxLeadingZeros == 1

\* The first seventeen digits of 2^63 - 1 = 9223372036854775807.
I64Stem == <<"9", "2", "2", "3", "3", "7", "2", "0", "3", "6", "8", "5", "4", "7", "7", "5", "8">>

TailDigits == {"0", "6", "7", "8"}

RECURSIVE Tails(_)
Tails(n) ==
    IF n = 0 THEN {<<>>}
    ELSE Tails(n - 1) \cup {Append(t, d) : t \in Tails(n - 1), d \in TailDigits}

\* The digit runs: short ones, and the runs around 2^63 - 1.
DigitRuns ==
    {<<"0">>, <<"4", "2">>, <<"0", "0", "7">>}
       \cup {[i \in 1..z |-> "0"] \o I64Stem \o t :
                z \in 0..MaxLeadingZeros, t \in Tails(MaxTailDigits)}

\* Lexer::new on `RUN;`
InitInteger ==
    \E run \in DigitRuns : Start(run, LexerNew(run \o <<";">>), <<>>, "lex")

SpecInteger == InitInteger /\ [][Next]_vars

\* The digits of a run without its leading zeros: the decimal writing of its
\* value.
RECURSIVE Decimal(_)
Decimal(run) == IF Len(run) > 1 /\ run[1] = "0" THEN Decimal(Tail(run)) ELSE run

\* a <= b for two decimal writings: a is shorter, or as long and not greater
\* at the first digit where they differ.
DecimalAtMost(a, b) ==
    \/ Len(a) < Len(b)
    \/ /\ Len(a) = Len(b)
       /\ \A i \in 1..Len(a) :
             (\A j \in 1..(i - 1) : a[j] = b[j]) => DigitVal(a[i]) <= DigitVal(b[i])

\* The value claimed for the drawn run, in decimal.
ClaimedInteger ==
    IF DecimalAtMost(Decimal(drawn), <<"9", "2", "2", "3", "3", "7", "2", "0", "3", "6", "8", "5", "4", "7", "7", "5", "8", "0", "7">>) THEN Decimal(drawn) ELSE <<"0">>

\* C30: a digit run whose value is at most 2^63 - 1 is lexed as Integer of
\* exactly that value, and a digit run whose value exceeds 2^63 - 1 as
\* Integer(0): no Illegal token is returned, no error is recorded, the
\* program parses and the literal is written as its value followed by
\* `_i64`, `0_i64` for a run that exceeds 2^63 - 1.
C30_IntegerBounds ==
    /\ \A i \in 1..Len(tokens) : tokens[i].type # "Illegal"
    /\ LexedAll => BeforeEof(tokens) = <<IntegerTok(ClaimedInteger), Tok("Semicolon")>>
    /\ errors = <<>>
    /\ ParseReturned => result = Ok(<<ExprStatement(IntegerExpr(ClaimedInteger))>>)
    /\ Finished =>
          TrimmedLines(output) = <<<<"f", "n", " ", "m", "a", "i", "n", "(", ")", " ", "{">>, ClaimedInteger \o <<"_", "i", "6", "4", ";">>, <<"}">>>>

\* `9223372036854775808;`, one more than 2^63 - 1, generated as `0_i64;`.
C30_OverflowIsZero ==
    /\ drawn = <<"9", "2", "2", "3", "3", "7", "2", "0", "3", "6", "8", "5", "4", "7", "7", "5", "8", "0", "8">>
    /\ Finished
    /\ tokens[1] = IntegerTok(<<"0">>)
    /\ Contains(output, <<"0", "_", "i", "6", "4", ";">>)
    /\ ~Contains(output, <<"8", "_", "i", "6", "4", ";">>)

====
